---- MODULE Spec2Model ----
(***************************************************************************)
(* Tiered conversational memory of memory-chatbot: the bounded in-memory   *)
(* buffer (src/memory/short_term.py), the three mid-term handlers          *)
(* (mid_term.py, mid_term_async.py, mid_term_with_redis.py), the           *)
(* PostgreSQL store (postgres_storage.py) and the message cache.           *)
(*                                                                         *)
(* Two pieces the handlers call are not defined anywhere in the source     *)
(* tree: ShortTermMemory.check_overflow and RedisStorage.cache_messages /  *)
(* get_cached_messages.  They are modelled from the written specification  *)
(* (sections 4.1 and 4.5) and are marked where they are defined.           *)
(***************************************************************************)
EXTENDS Integers, Sequences, FiniteSets, TLC

\* ------------------------------------------------------------------ bounds
\* largest max_turns a handler is constructed with
MaxTurnsBound == 2

\* add_message calls per handler when role and content are chosen freely
MaxAdds == 6

\* add_message calls of a mid-term handler when role and content are free
MaxAddsMid == 5

\* ------------------------------------------------------------- basic data
Handlers == {1, 2}

Roles == {"user", "assistant"}

Contents == {"a", "b"}

\* the dict built by ShortTermMemory.add_message
Message(role, content) == [role |-> role, content |-> content]

\* Python's s[-n:] for n > 0: the last n entries (all of s when it is shorter)
LastN(s, n) == IF n >= Len(s) THEN s ELSE SubSeq(s, Len(s) - n + 1, Len(s))

\* Python's reversed(s)
Reversed(s) == [i \in 1..Len(s) |-> s[Len(s) + 1 - i]]

Range(s) == {s[i] : i \in 1..Len(s)}

\* -------------------------------------------------------- ShortTermMemory
\* self.max_messages = max_turns * 2
max_messages(k) == k * 2

\* mutant: a full buffer refuses the new entry instead of dropping the oldest
DequeAppendDropNewest(dq, maxlen, x) == IF Len(dq) >= maxlen THEN dq ELSE Append(dq, x)

\* collections.deque(maxlen=...).append: the entry goes in on the right and
\* the deque silently discards from the left what exceeds maxlen
DequeAppend(dq, maxlen, x) == LastN(Append(dq, x), maxlen)

\* ShortTermMemory.add_message: returns None, the deque is the only effect
ShortTermMemory_add_message(dq, k, role, content) == DequeAppend(dq, max_messages(k), Message(role, content))

\* ShortTermMemory.get_messages: list(self.messages)
get_messages(dq) == dq

\* ShortTermMemory.check_overflow, called by every handler right after
\* add_message and defined nowhere in the source tree.  Modelled from the
\* specification (4.1): the oldest entries that the add pushed beyond
\* 2*max_turns, oldest first; empty when capacity is not exceeded.
\* dq is the buffer before the add, m the entry added.
check_overflow(dq, k, m) == LET s == Append(dq, m) IN IF Len(s) > max_messages(k) THEN SubSeq(s, 1, Len(s) - max_messages(k)) ELSE << >>

\* ------------------------------------------------------- PostgreSQLStorage
\* limit=None of PostgreSQLStorage.query_messages
NoLimit == -1

\* PostgreSQLStorage.query_messages: ORDER BY created_at DESC, then LIMIT.
\* rows is the table of one conversation in insertion order; every overflow
\* batch is committed on its own, so insertion order is creation order.
pg_query_messages(rows, limit) == LET desc == Reversed(rows) IN IF limit = NoLimit \/ limit >= Len(desc) THEN desc ELSE SubSeq(desc, 1, limit)

\* mutant: the rows are added to the session but never committed
add_messages_no_commit(rows, batch) == rows

\* PostgreSQLStorage.add_messages: session.add_all keeps the input order
pg_add_messages(rows, batch) == rows \o batch

\* "if total_count > 0 and total_count % 50 == 0" and "all_messages[-50:]"
BlockSize == 50

\* the label f"msg_{start}_to_{end}" of MidTermMemory._compress_recent_messages
time_range(total_count) == << total_count - 49, total_count >>

\* MidTermMemory._generate_summary: the text states three counts
generate_summary(msgs) == [n |-> Len(msgs), users |-> Cardinality({i \in 1..Len(msgs) : msgs[i].role = "user"}), assistants |-> Cardinality({i \in 1..Len(msgs) : msgs[i].role = "assistant"})]

\* uq_conversation_timerange: a second row with the same label is refused
label_taken(summaries, label) == \E i \in 1..Len(summaries) : summaries[i].time_range = label

\* where a compaction can fail
FailPoints == {"none", "summarizer", "save_summary", "extractor", "upsert_profile"}

ProfileKeys == {"name"}

ProfileValues == {"Tom"}

\* results of the profile extractor: the empty dict of the placeholder
\* _extract_user_profile, or one key-value pair of an extractor plugged in
ProfileUpdates == {<< >>} \cup {<< <<k, v>> >> : k \in ProfileKeys, v \in ProfileValues}

\* PostgreSQLStorage.upsert_profile: INSERT .. ON CONFLICT DO UPDATE per key
pg_upsert_profile(profile, updates) == {p \in profile : \A i \in 1..Len(updates) : updates[i][1] # p[1]} \cup Range(updates)

\* The body shared by MidTermMemory._compress_recent_messages and the try
\* block of MidTermMemoryAsync._compress_in_background after its query:
\* summarize, save the summary under the count-derived label, extract the
\* profile, upsert it when it is not empty.  Yields the tables afterwards
\* and whether an exception left the body.
compress_body(summaries, profile, recent, total_count, fail, updates) ==
  LET label == time_range(total_count)
      row == [time_range |-> label, summary_text |-> generate_summary(recent), of |-> recent]
      saved == Append(summaries, row)
  IN IF fail = "summarizer" THEN [summaries |-> summaries, profile |-> profile, raised |-> TRUE]
     ELSE IF fail = "save_summary" \/ label_taken(summaries, label) THEN [summaries |-> summaries, profile |-> profile, raised |-> TRUE]
     ELSE IF fail = "extractor" THEN [summaries |-> saved, profile |-> profile, raised |-> TRUE]
     ELSE IF updates = << >> THEN [summaries |-> saved, profile |-> profile, raised |-> FALSE]
     ELSE IF fail = "upsert_profile" THEN [summaries |-> saved, profile |-> profile, raised |-> TRUE]
     ELSE [summaries |-> saved, profile |-> pg_upsert_profile(profile, updates), raised |-> FALSE]

\* ------------------------------------------------------------------ state
VARIABLES compressor, comp_calls, message_rows, db_now, summary_rows, db_calls, redis_keys, redis_max_messages, zset, key_ttl, redis_busy, zadded, replies, token_counter, compressor_max_tokens, comp_messages, compressed, conversations, user_profiles, max_turns, messages, added, entered, returned, pc, frame, outcome, raised, conversation, pg_messages, pg_summaries, pg_profile, triggers, cache, cache_hits, cache_misses, session_maker, tasks, compression_tasks, sessions, handle_use

vars == << compressor, comp_calls, message_rows, db_now, summary_rows, db_calls, redis_keys, redis_max_messages, zset, key_ttl, redis_busy, zadded, replies, token_counter, compressor_max_tokens, comp_messages, compressed, conversations, user_profiles, max_turns, messages, added, entered, returned, pc, frame, outcome, raised, conversation, pg_messages, pg_summaries, pg_profile, triggers, cache, cache_hits, cache_misses, session_maker, tasks, compression_tasks, sessions, handle_use >>

\* the locals of a handler call that is not running
EmptyFrame == [overflow |-> << >>, all_messages |-> << >>, recent_messages |-> << >>, total_count |-> 0]

\* what a handler's last completed call did: the operation, whether it
\* returned ("ok") or raised, the value returned, the overflow batch it
\* persisted and the count at which it triggered a compaction (0: none)
NoOutcome == [op |-> "none", status |-> "ok", value |-> << >>, persisted |-> << >>, triggered |-> 0]

\* the outcome of a call that has not returned yet
Running(op) == [NoOutcome EXCEPT !.op = op, !.status = "running"]

\* the Redis key "chat:{user_id}:{session_id}:messages" of RedisStorage:
\* the sorted set, the seconds the key has left (0: no key), whether the
\* server is stuck in a script, every entry added since the key was made,
\* and what each client's last add_message call sent and got back
redis_vars == << redis_keys, redis_max_messages, zset, key_ttl, redis_busy, zadded, replies >>

NoReply == [state |-> "idle", member |-> << >>, timestamp |-> 0, count |-> 0]

InitRedisKey == /\ redis_keys = {}
                /\ redis_max_messages = 0
                /\ zset = {}
                /\ key_ttl = 0
                /\ redis_busy = FALSE
                /\ zadded = {}
                /\ replies = [c \in {1, 2} |-> NoReply]

\* a TokenBasedCompressor, the list given to compress and what it returned
compressor_vars == << compressor, comp_calls, token_counter, compressor_max_tokens, comp_messages, compressed >>

\* compress has not been called
NotCompressed == << [role |-> "none", content |-> "compress was not called"] >>

\* no SlidingWindowCompressor, LLMSummaryCompressor or HybridCompressor
NoCompressor == [kind |-> "none", keep_turns |-> 0, threshold_turns |-> 0]

InitCompressor == /\ compressor = NoCompressor
                  /\ comp_calls = << >>
                  /\ token_counter = << >>
                  /\ compressor_max_tokens = 0
                  /\ comp_messages = << >>
                  /\ compressed = NotCompressed

\* the conversations and user_profiles tables as whole tables; the
\* handlers above work on one conversation and leave them alone
table_vars == << conversations, user_profiles, message_rows, db_now, summary_rows, db_calls >>

InitTables == /\ message_rows = << >>
              /\ db_now = 1
              /\ summary_rows = << >>
              /\ db_calls = << >>
              /\ conversations = << >>
              /\ user_profiles = {}

handler_vars == << pc, frame, outcome, raised >>

buffer_vars == << messages, added, entered, returned >>

store_vars == << conversation, pg_messages, pg_summaries, pg_profile, triggers >>

\* added[h]: the messages passed to add_message of handler h, in call order.
\* entered[h]: every entry put into the buffer of h (by add_message or by
\* load_recent_history); returned[h]: every entry an overflow batch handed
\* back to the caller.  The three record history and decide nothing.
InitHandlers == /\ messages = [h \in Handlers |-> << >>]
                /\ added = [h \in Handlers |-> << >>]
                /\ entered = [h \in Handlers |-> << >>]
                /\ returned = [h \in Handlers |-> << >>]
                /\ pc = [h \in Handlers |-> "idle"]
                /\ frame = [h \in Handlers |-> EmptyFrame]
                /\ outcome = [h \in Handlers |-> NoOutcome]
                /\ raised = [h \in Handlers |-> FALSE]

\* the message-cache entry of the conversation: << >> when there is none,
\* << snapshot >> when there is one; the counters of MidTermMemoryWithRedis
cache_vars == << cache, cache_hits, cache_misses >>

\* session_maker: whether the handler was given a session factory;
\* tasks: the background units created so far; compression_tasks: the set
\* self._compression_tasks; sessions: the handles the factory has made;
\* handle_use: which unit used which handle for which storage operation
async_vars == << session_maker, tasks, compression_tasks, sessions, handle_use >>

InitCache == /\ cache = << >>
             /\ cache_hits = 0
             /\ cache_misses = 0

InitAsync == /\ tasks = << >>
             /\ compression_tasks = {}
             /\ sessions = << >>
             /\ handle_use = {}

InitStore == /\ conversation = FALSE
             /\ pg_messages = << >>
             /\ pg_summaries = << >>
             /\ pg_profile = {}
             /\ triggers = << >>

\* =================================================== ShortTermMemory alone
InitShort == /\ InitRedisKey /\ InitCompressor /\ InitTables /\ InitCache /\ InitAsync /\ session_maker = FALSE
             /\ \E k \in 0..MaxTurnsBound : max_turns = [h \in Handlers |-> k]
             /\ InitHandlers
             /\ InitStore

\* one ShortTermMemory.add_message call on the buffer of h
ShortAdd(h, role, content) == /\ messages' = [messages EXCEPT ![h] = ShortTermMemory_add_message(messages[h], max_turns[h], role, content)]
                              /\ added' = [added EXCEPT ![h] = Append(added[h], Message(role, content))]
                              /\ entered' = [entered EXCEPT ![h] = Append(entered[h], Message(role, content))]
                              /\ UNCHANGED << redis_vars, compressor_vars, table_vars, max_turns, cache_vars, async_vars, returned, handler_vars, store_vars >>

NextShort == \E r \in Roles, c \in Contents : Len(added[1]) < MaxAdds /\ ShortAdd(1, r, c)

SpecShort == InitShort /\ [][NextShort]_vars

\* C2: after every add_message on a ShortTermMemory(max_turns=k) the buffer
\* holds at most 2k entries and get_messages() is exactly the most recent
\* min(N, 2k) of the N entries added, in their original order.
C2_BufferIsRecentSuffix == \A h \in Handlers : LET N == Len(added[h])
                                                    k == max_turns[h]
                                                    n == IF N < 2 * k THEN N ELSE 2 * k
                                                IN /\ Len(get_messages(messages[h])) <= 2 * k
                                                   /\ get_messages(messages[h]) = SubSeq(added[h], N - n + 1, N)

\* C2 witness: more entries were added than the buffer holds, so it evicted
C2_Witness == /\ max_turns[1] >= 1
              /\ Len(added[1]) > 2 * max_turns[1] + 1
              /\ Len(messages[1]) = 2 * max_turns[1]

\* ====================================== the add_message path of a handler
\* The call returns or raises: the frame is dropped and the outcome recorded.
\* raised[h] remembers that some call of h has raised.
Return(h, status, persisted, triggered) == /\ pc' = [pc EXCEPT ![h] = "idle"]
                                           /\ frame' = [frame EXCEPT ![h] = EmptyFrame]
                                           /\ outcome' = [outcome EXCEPT ![h] = [outcome[h] EXCEPT !.status = status, !.persisted = persisted, !.triggered = triggered]]
                                           /\ raised' = [raised EXCEPT ![h] = raised[h] \/ status = "raised"]

\* add_message, steps 1 and 2 (the same in the three handlers): the entry
\* goes into the buffer, check_overflow yields the batch; an empty batch
\* ends the call, otherwise the call waits for get_or_create_conversation
add_message_call(h, role, content) ==
  /\ pc[h] = "idle"
  /\ LET m == Message(role, content)
         batch == check_overflow(messages[h], max_turns[h], m)
     IN /\ messages' = [messages EXCEPT ![h] = ShortTermMemory_add_message(messages[h], max_turns[h], role, content)]
        /\ added' = [added EXCEPT ![h] = Append(added[h], m)]
        /\ entered' = [entered EXCEPT ![h] = Append(entered[h], m)]
        /\ returned' = [returned EXCEPT ![h] = returned[h] \o batch]
        /\ IF batch = << >>
           THEN /\ outcome' = [outcome EXCEPT ![h] = [NoOutcome EXCEPT !.op = "add_message"]]
                /\ UNCHANGED << pc, frame, raised >>
           ELSE /\ pc' = [pc EXCEPT ![h] = "get_conversation"]
                /\ frame' = [frame EXCEPT ![h] = [EmptyFrame EXCEPT !.overflow = batch]]
                /\ outcome' = [outcome EXCEPT ![h] = Running("add_message")]
                /\ UNCHANGED raised
  /\ UNCHANGED << redis_vars, compressor_vars, table_vars, max_turns, cache_vars, async_vars, store_vars >>

\* add_message, step 3a: await storage.get_or_create_conversation; the row
\* is created when it is missing.  ok = FALSE: the store raises, and the
\* exception leaves add_message.
add_message_get_conversation(h, ok) ==
  /\ pc[h] = "get_conversation"
  /\ IF ok
     THEN /\ conversation' = TRUE
          /\ pc' = [pc EXCEPT ![h] = "add_messages"]
          /\ UNCHANGED << frame, outcome, raised >>
     ELSE /\ Return(h, "raised", << >>, 0)
          /\ UNCHANGED conversation
  /\ UNCHANGED << redis_vars, compressor_vars, table_vars, max_turns, cache_vars, async_vars, buffer_vars, pg_messages, pg_summaries, pg_profile, triggers >>

\* add_message, step 3b: await storage.add_messages(conv.id, overflow)
add_message_add_messages(h, ok) ==
  /\ pc[h] = "add_messages"
  /\ IF ok
     THEN /\ pg_messages' = pg_add_messages(pg_messages, frame[h].overflow)
          /\ pc' = [pc EXCEPT ![h] = "query"]
          /\ UNCHANGED << frame, outcome, raised >>
     ELSE /\ Return(h, "raised", << >>, 0)
          /\ UNCHANGED pg_messages
  /\ UNCHANGED << redis_vars, compressor_vars, table_vars, max_turns, cache_vars, async_vars, buffer_vars, conversation, pg_summaries, pg_profile, triggers >>

\* mutant: the trigger fires on every persisted batch
compression_due_always(total_count) == total_count > 0

\* "if total_count > 0 and total_count % 50 == 0"
compression_due(total_count) == total_count > 0 /\ total_count % BlockSize = 0

\* MidTermMemory.add_message, step 4: all_messages = await query_messages,
\* the count decides; all_messages[-50:] and the count go to
\* _compress_recent_messages, which the call awaits
MidTermMemory_count(h) ==
  /\ pc[h] = "query"
  /\ LET all_messages == pg_query_messages(pg_messages, NoLimit)
         total_count == Len(all_messages)
     IN IF compression_due(total_count)
        THEN /\ pc' = [pc EXCEPT ![h] = "compress"]
             /\ frame' = [frame EXCEPT ![h].recent_messages = LastN(all_messages, BlockSize), ![h].total_count = total_count]
             /\ triggers' = Append(triggers, [handler |-> h, total_count |-> total_count])
             /\ UNCHANGED << outcome, raised >>
        ELSE /\ Return(h, "ok", frame[h].overflow, 0)
             /\ UNCHANGED triggers
  /\ UNCHANGED << redis_vars, compressor_vars, table_vars, max_turns, cache_vars, async_vars, buffer_vars, conversation, pg_messages, pg_summaries, pg_profile >>

\* ================================ one MidTermMemory, below the block size
InitMid == /\ InitRedisKey /\ InitCompressor /\ InitTables /\ InitCache /\ InitAsync /\ session_maker = FALSE
           /\ \E k \in 0..MaxTurnsBound : max_turns = [h \in Handlers |-> k]
           /\ InitHandlers
           /\ InitStore

NextMid == \/ \E r \in Roles, c \in Contents : Len(added[1]) < MaxAddsMid /\ add_message_call(1, r, c)
           \/ \E ok \in BOOLEAN : add_message_get_conversation(1, ok)
           \/ \E ok \in BOOLEAN : add_message_add_messages(1, ok)
           \/ MidTermMemory_count(1)

SpecMid == InitMid /\ [][NextMid]_vars

\* C1: for one MidTermMemory on a fresh conversation, once every add_message
\* call so far has returned normally, the persisted messages in append order
\* followed by the buffer snapshot are exactly the messages added, in order
\* (what was evicted is persisted once, what is buffered is not persisted).
C1_PersistedThenBufferIsAdded == (pc[1] = "idle" /\ ~raised[1]) => pg_messages \o get_messages(messages[1]) = added[1]

\* C1 witness: two entries were evicted and persisted, the buffer is full
C1_Witness == /\ pc[1] = "idle" /\ ~raised[1]
              /\ max_turns[1] = 1
              /\ Len(added[1]) = 4 /\ Len(pg_messages) = 2 /\ Len(messages[1]) = 2

\* ============================= one MidTermMemory with load_recent_history
\* entries a load_recent_history call may ask for
MaxLoadCount == 2

\* load_recent_history calls explored
MaxLoads == 2

\* "for msg in reversed(messages): self.short_term.add_message(...)":
\* the adds of load_recent_history, one after the other, none followed by
\* check_overflow
RECURSIVE add_each(_, _, _)
add_each(dq, k, msgs) == IF msgs = << >> THEN dq ELSE add_each(ShortTermMemory_add_message(dq, k, Head(msgs).role, Head(msgs).content), k, Tail(msgs))

\* MidTermMemory.load_recent_history: the newest `count` persisted messages
\* are added to the buffer oldest first
load_recent_history(h, count) ==
  /\ pc[h] = "idle"
  /\ LET loaded == Reversed(pg_query_messages(pg_messages, count))
     IN /\ conversation' = TRUE
        /\ messages' = [messages EXCEPT ![h] = add_each(messages[h], max_turns[h], loaded)]
        /\ entered' = [entered EXCEPT ![h] = entered[h] \o loaded]
        /\ outcome' = [outcome EXCEPT ![h] = [NoOutcome EXCEPT !.op = "load_recent_history", !.value = loaded]]
  /\ UNCHANGED << redis_vars, compressor_vars, table_vars, max_turns, cache_vars, async_vars, added, returned, pc, frame, raised, pg_messages, pg_summaries, pg_profile, triggers >>

InitHist == /\ InitRedisKey /\ InitCompressor /\ InitTables /\ InitCache /\ InitAsync /\ session_maker = FALSE
            /\ \E k \in 1..MaxTurnsBound : max_turns = [h \in Handlers |-> k]
            /\ InitHandlers
            /\ InitStore

NextHist == \/ \E r \in Roles, c \in Contents : Len(added[1]) < MaxAddsMid /\ add_message_call(1, r, c)
            \/ add_message_get_conversation(1, TRUE)
            \/ add_message_add_messages(1, TRUE)
            \/ MidTermMemory_count(1)
            \/ \E n \in 1..MaxLoadCount : Len(entered[1]) < Len(added[1]) + MaxLoads * MaxLoadCount /\ load_recent_history(1, n)

SpecHist == InitHist /\ [][NextHist]_vars

\* C3: an entry leaves the buffer only by being handed back to the caller in
\* an overflow batch, oldest first: everything that ever entered the buffer
\* is the entries returned so far followed by the entries still buffered.
C3_EvictedAreReturned == \A h \in Handlers : entered[h] = returned[h] \o get_messages(messages[h])

\* ================================================ MidTermMemoryWithRedis
\* largest explicit limit passed to query_messages
MaxLimit == 2

\* query_messages calls counted by the hit and miss counters
MaxQueries == 3

\* add_message calls of the handler with the cache (content = call number)
MaxAddsRedis == 5

Limits == {NoLimit} \cup (0..MaxLimit)

\* {"role": m.role, "content": m.content}
to_dict(m) == [role |-> m.role, content |-> m.content]

messages_dict(rows) == [i \in 1..Len(rows) |-> to_dict(rows[i])]

\* RedisStorage.cache_messages, called by the handler and by
\* tests/test_redis_storage.py and defined nowhere in the source tree.
\* Modelled from the specification (3, 4.5): the entry becomes a snapshot of
\* the list given (the TTL is the CacheExpire action).
cache_messages(entry, msgs) == << msgs >>

\* RedisStorage.get_cached_messages, likewise missing from the source tree:
\* the snapshot, or None (here << >>) when the conversation has no entry.
get_cached_messages(entry) == entry

\* mutant: an entry that exists is kept and only a missing one is filled
refresh_if_absent(entry, all_messages) == IF entry = << >> THEN cache_messages(entry, messages_dict(all_messages)) ELSE entry

\* MidTermMemoryWithRedis.add_message after the overflow was persisted: the
\* cache entry is overwritten with every persisted message of the
\* conversation as query_messages returned them
refresh_cache(entry, all_messages) == cache_messages(entry, messages_dict(all_messages))

\* query_messages on a hit: "if limit: cached = cached[-limit:]"
query_hit_result(cached, limit) == IF limit # NoLimit /\ limit # 0 THEN LastN(cached, limit) ELSE cached

\* query_messages on a miss: the PostgreSQL rows as dicts
query_miss_result(rows, limit) == messages_dict(pg_query_messages(rows, limit))

\* MidTermMemoryWithRedis.add_message, "all_messages = await
\* self.pg_storage.query_messages(conversation_id=conv.id)"
WithRedis_read_all(h) ==
  /\ pc[h] = "query"
  /\ pc' = [pc EXCEPT ![h] = "cache_write"]
  /\ frame' = [frame EXCEPT ![h].all_messages = pg_query_messages(pg_messages, NoLimit)]
  /\ UNCHANGED << redis_vars, compressor_vars, table_vars, max_turns, cache_vars, async_vars, buffer_vars, store_vars, outcome, raised >>

\* MidTermMemoryWithRedis.add_message, "await self.redis.cache_messages(...)"
WithRedis_cache_write(h) ==
  /\ pc[h] = "cache_write"
  /\ cache' = refresh_cache(cache, frame[h].all_messages)
  /\ Return(h, "ok", frame[h].overflow, 0)
  /\ UNCHANGED << redis_vars, compressor_vars, table_vars, max_turns, cache_hits, cache_misses, async_vars, buffer_vars, store_vars >>

\* MidTermMemoryWithRedis.query_messages(user_id, session_id, limit)
WithRedis_query_messages(h, limit) ==
  /\ pc[h] = "idle"
  /\ LET cached == get_cached_messages(cache)
     IN IF cached # << >>
        THEN /\ cache_hits' = cache_hits + 1
             /\ outcome' = [outcome EXCEPT ![h] = [NoOutcome EXCEPT !.op = "query_messages", !.value = query_hit_result(cached[1], limit)]]
             /\ UNCHANGED << cache, cache_misses, conversation >>
        ELSE LET result == query_miss_result(pg_messages, limit)
             IN /\ cache_misses' = cache_misses + 1
                /\ conversation' = TRUE
                /\ cache' = IF result # << >> THEN cache_messages(cache, result) ELSE cache
                /\ outcome' = [outcome EXCEPT ![h] = [NoOutcome EXCEPT !.op = "query_messages", !.value = result]]
                /\ UNCHANGED cache_hits
  /\ UNCHANGED << redis_vars, compressor_vars, table_vars, max_turns, async_vars, buffer_vars, pc, frame, raised, pg_messages, pg_summaries, pg_profile, triggers >>

\* the entry's TTL runs out, or the cache drops the entry
CacheExpire == /\ cache # << >>
               /\ cache' = << >>
               /\ UNCHANGED << redis_vars, compressor_vars, table_vars, max_turns, cache_hits, cache_misses, async_vars, buffer_vars, handler_vars, store_vars >>

InitRedis == /\ InitRedisKey /\ InitCompressor /\ InitTables /\ InitCache /\ InitAsync /\ session_maker = FALSE
             /\ \E k \in 0..1 : max_turns = [h \in Handlers |-> k]
             /\ InitHandlers
             /\ InitStore

NextRedis == \/ \E r \in Roles : Len(added[1]) < MaxAddsRedis /\ add_message_call(1, r, Len(added[1]) + 1)
             \/ add_message_get_conversation(1, TRUE)
             \/ add_message_add_messages(1, TRUE)
             \/ WithRedis_read_all(1)
             \/ WithRedis_cache_write(1)
             \/ \E limit \in Limits : cache_hits + cache_misses < MaxQueries /\ WithRedis_query_messages(1, limit)
             \/ CacheExpire

SpecRedis == InitRedis /\ [][NextRedis]_vars

\* what query_messages(user, session, limit) returns when called in this state
query_now(limit) == IF get_cached_messages(cache) # << >> THEN query_hit_result(cache[1], limit) ELSE query_miss_result(pg_messages, limit)

\* the last call of h was an add_message that persisted an overflow batch
JustPersisted(h) == pc[h] = "idle" /\ outcome[h].op = "add_message" /\ outcome[h].status = "ok" /\ outcome[h].persisted # << >>

\* C4: once an add_message of a MidTermMemoryWithRedis that persisted an
\* overflow batch has returned, query_messages for the conversation returns
\* a sequence that holds every message of that batch, whether the entry was
\* in the cache before the write, was absent, or has expired since.
C4_ReadAfterWriteIsFresh == JustPersisted(1) => \A i \in 1..Len(outcome[1].persisted) : to_dict(outcome[1].persisted[i]) \in Range(query_now(NoLimit))

\* C4 witness: the write found an entry cached by an earlier, limited query
\* (a miss that cached one message) and replaced it
C4_Witness == /\ JustPersisted(1)
              /\ cache_misses >= 1
              /\ cache # << >>
              /\ Len(pg_messages) >= 3

\* C5: whenever the cache holds an entry, query_messages returns for every
\* limit the same sequence from the cache as it would from PostgreSQL with
\* the cache empty.
C5_CacheIsTransparent == cache # << >> => \A limit \in Limits : query_hit_result(cache[1], limit) = query_miss_result(pg_messages, limit)

\* ===================================== synchronous compaction (MidTermMemory)
\* MidTermMemory.add_message awaits _compress_recent_messages with no
\* try/except around it: an exception of the body leaves add_message
sync_status(body_raised) == IF body_raised THEN "raised" ELSE "ok"

\* MidTermMemory._compress_recent_messages, awaited by add_message.
\* fail names the step that raises, updates is what the extractor returns
\* (upsert_profile is only called, and so can only fail, when it is not empty)
MidTermMemory_compress_recent_messages(h, fail, updates) ==
  /\ pc[h] = "compress"
  /\ fail = "upsert_profile" => updates # << >>
  /\ LET body == compress_body(pg_summaries, pg_profile, frame[h].recent_messages, frame[h].total_count, fail, updates)
     IN /\ pg_summaries' = body.summaries
        /\ pg_profile' = body.profile
        /\ Return(h, sync_status(body.raised), frame[h].overflow, frame[h].total_count)
  /\ UNCHANGED << redis_vars, compressor_vars, table_vars, max_turns, cache_vars, async_vars, buffer_vars, conversation, pg_messages, triggers >>

\* PostgreSQLStorage.get_summaries after get_or_create_conversation, as the
\* callers inspect the result of a compaction: ORDER BY created_at
inspect_summaries(h) ==
  /\ pc[h] = "idle"
  /\ conversation' = TRUE
  /\ outcome' = [outcome EXCEPT ![h] = [NoOutcome EXCEPT !.op = "get_summaries", !.value = pg_summaries]]
  /\ UNCHANGED << redis_vars, compressor_vars, table_vars, max_turns, cache_vars, async_vars, buffer_vars, pc, frame, raised, pg_messages, pg_summaries, pg_profile, triggers >>

\* number of decimal digits of a count below 1000
Digits(n) == IF n < 10 THEN 1 ELSE IF n < 100 THEN 2 ELSE 3

\* len() of the text of _generate_summary: 22 fixed characters and 3 counts
summary_text_len(text) == 22 + Digits(text.n) + Digits(text.users) + Digits(text.assistants)

\* len() of a profile key or value of the model
StrLen(str) == IF str = "name" THEN 4 ELSE 3

\* the characters of f"{k}: {v}" summed over the entries of a profile
RECURSIVE entries_len(_)
entries_len(profile) == IF profile = {} THEN 0 ELSE LET p == CHOOSE q \in profile : TRUE IN StrLen(p[1]) + 2 + StrLen(p[2]) + entries_len(profile \ {p})

\* len(", ".join(f"{k}: {v}" ...)) for a profile that is not empty
profile_text_len(profile) == entries_len(profile) + 2 * (Cardinality(profile) - 1)

\* sum(len(s.summary_text) for s in recent_summaries)
RECURSIVE summaries_len(_)
summaries_len(recent_summaries) == IF recent_summaries = << >> THEN 0 ELSE summary_text_len(Head(recent_summaries).summary_text) + summaries_len(Tail(recent_summaries))

\* "used_tokens += sum(len(s.summary_text) for s in recent_summaries) // 4"
summaries_tokens(recent_summaries) == summaries_len(recent_summaries) \div 4

\* mutant: the history is appended as the query returned it, newest first
get_context_newest_first(short_messages, rows, max_tokens) ==
  LET remaining_tokens == max_tokens - Len(short_messages) * 50
      need_count == remaining_tokens \div 50
  IN IF remaining_tokens < 100 THEN short_messages
     ELSE messages_dict(pg_query_messages(rows, need_count)) \o short_messages

\* MidTermMemory._get_context_sliding_window
get_context_sliding_window(short_messages, rows, max_tokens) ==
  LET remaining_tokens == max_tokens - Len(short_messages) * 50
      need_count == remaining_tokens \div 50
  IN IF remaining_tokens < 100 THEN short_messages
     ELSE messages_dict(Reversed(pg_query_messages(rows, need_count))) \o short_messages

\* MidTermMemory.get_context_for_llm with use_compression=True: the profile
\* note, the note of the last three summaries, the backfill (only when more
\* than 500 tokens remain) in chronological order, the buffer snapshot
get_context_compressed(short_messages, rows, summaries, profile, max_tokens) ==
  LET profile_msg == IF profile # {} THEN << [role |-> "system", content |-> << "profile", profile >>] >> ELSE << >>
      profile_tokens == IF profile # {} THEN profile_text_len(profile) \div 4 ELSE 0
      recent_summaries == LastN(summaries, 3)
      summary_msg == IF summaries # << >> THEN << [role |-> "system", content |-> << "summaries", [i \in 1..Len(recent_summaries) |-> recent_summaries[i].time_range] >>] >> ELSE << >>
      summary_tokens == IF summaries # << >> THEN summaries_tokens(recent_summaries) ELSE 0
      used_tokens == profile_tokens + summary_tokens + Len(short_messages) * 50
      remaining_tokens == max_tokens - used_tokens
      need_count == remaining_tokens \div 50
      history == IF remaining_tokens > 500 THEN messages_dict(Reversed(pg_query_messages(rows, need_count))) ELSE << >>
  IN profile_msg \o summary_msg \o history \o short_messages

\* token budgets passed to get_context_for_llm (4096 is the default)
TokenBudgets == {0, 600, 4096}

\* MidTermMemory.get_context_for_llm
get_context_for_llm(h, max_tokens, use_compression) ==
  /\ pc[h] = "idle"
  /\ conversation' = TRUE
  /\ LET short_messages == get_messages(messages[h])
         context == IF use_compression THEN get_context_compressed(short_messages, pg_messages, pg_summaries, pg_profile, max_tokens)
                    ELSE get_context_sliding_window(short_messages, pg_messages, max_tokens)
     IN outcome' = [outcome EXCEPT ![h] = [NoOutcome EXCEPT !.op = "get_context_for_llm", !.value = context]]
  /\ UNCHANGED << redis_vars, compressor_vars, table_vars, max_turns, cache_vars, async_vars, buffer_vars, pc, frame, raised, pg_messages, pg_summaries, pg_profile, triggers >>

\* add_message calls explored with the block size of 50: enough for the
\* persisted count to pass 100 with max_turns = 1
MaxAddsCompact == 103

\* the callers of the tests alternate user and assistant messages
TurnRole(n) == IF n % 2 = 1 THEN "user" ELSE "assistant"

InitCompact == /\ InitRedisKey /\ InitCompressor /\ InitTables /\ InitCache /\ InitAsync /\ session_maker = FALSE
               /\ max_turns = [h \in Handlers |-> 1]
               /\ InitHandlers
               /\ InitStore

NextCompact == \/ Len(added[1]) < MaxAddsCompact /\ add_message_call(1, TurnRole(Len(added[1]) + 1), Len(added[1]) + 1)
               \/ add_message_get_conversation(1, TRUE)
               \/ add_message_add_messages(1, TRUE)
               \/ MidTermMemory_count(1)
               \/ \E fail \in FailPoints, updates \in ProfileUpdates : MidTermMemory_compress_recent_messages(1, fail, updates)
               \/ inspect_summaries(1)
               \/ \E max_tokens \in TokenBudgets, use_compression \in BOOLEAN : get_context_for_llm(1, max_tokens, use_compression)

SpecCompact == InitCompact /\ [][NextCompact]_vars

\* the labels of the summaries stored, in creation order
summary_labels == [i \in 1..Len(pg_summaries) |-> pg_summaries[i].time_range]

\* C6: with one handler persisting one entry at a time and no compaction
\* failing, whenever no call is running the summaries stored are exactly one
\* per multiple c of 50 reached by the persisted count, labelled
\* msg_{c-49}_to_{c} in order (msg_1_to_50 at 50); get_summaries and
\* get_context_for_llm, which are steps of this specification, add none.
C6_OneSummaryPerBlock == (pc[1] = "idle" /\ ~raised[1]) => summary_labels = [i \in 1..(Len(pg_messages) \div BlockSize) |-> << BlockSize * i - 49, BlockSize * i >>]

\* C6 witness: the count is 50, msg_1_to_50 is stored and the state has
\* been inspected after the compaction
C6_Witness == /\ pc[1] = "idle" /\ ~raised[1]
              /\ Len(pg_messages) = BlockSize
              /\ summary_labels = << << 1, 50 >> >>
              /\ outcome[1].op = "get_context_for_llm"
              /\ Len(outcome[1].value) > Len(messages[1])

\* C8 (synchronous mode): an add_message call that triggered a compaction
\* returns normally with its overflow batch persisted, whatever fails
\* during the compaction.
C8_CompactionFailureIsContained == \A h \in Handlers : (pc[h] = "idle" /\ outcome[h].op = "add_message" /\ outcome[h].triggered > 0) => (outcome[h].status = "ok" /\ outcome[h].persisted # << >>)

\* ============================ two MidTermMemory handlers, one conversation
\* add_message calls of the two handlers together
MaxAddsConc == 52

\* Each handler has its own buffer and its own storage session; both write
\* the same (user_id, session_id).  Every await of add_message is a point
\* where the other handler's call can run.
InitConc == /\ InitRedisKey /\ InitCompressor /\ InitTables /\ InitCache /\ InitAsync /\ session_maker = FALSE
            /\ max_turns = [h \in Handlers |-> 0]
            /\ InitHandlers
            /\ InitStore

NextConc == \/ \E h \in Handlers : Len(added[1]) + Len(added[2]) < MaxAddsConc /\ add_message_call(h, "user", "m")
            \/ \E h \in Handlers : add_message_get_conversation(h, TRUE)
            \/ \E h \in Handlers : add_message_add_messages(h, TRUE)
            \/ \E h \in Handlers : MidTermMemory_count(h)
            \/ \E h \in Handlers : MidTermMemory_compress_recent_messages(h, "none", << >>)

SpecConc == InitConc /\ [][NextConc]_vars

\* C7: no multiple of 50 triggers the compaction in more than one
\* add_message call.
C7_OneTriggerPerBlock == \A i, j \in 1..Len(triggers) : triggers[i].total_count = triggers[j].total_count => i = j

\* ================================== asynchronous compaction (MidTermMemoryAsync)
\* the handle of the foreground storage, self.storage
ForegroundHandle == 0

\* mutant: the compaction is awaited inside add_message
await_compress_in_background(units, total_count) == Append(units, [total_count |-> total_count, state |-> "done", step |-> "done", handle |-> ForegroundHandle, recent_messages |-> << >>, result |-> "ok"])

\* asyncio.create_task(self._compress_in_background(conv.id, total_count)):
\* the unit is scheduled and has not run a step when add_message goes on
create_task(units, total_count) == Append(units, [total_count |-> total_count, state |-> "scheduled", step |-> "start", handle |-> ForegroundHandle, recent_messages |-> << >>, result |-> "none"])

\* MidTermMemoryAsync.add_message, step 4: the count decides; the unit is
\* created, put into self._compression_tasks, and the call returns
MidTermMemoryAsync_count(h) ==
  /\ pc[h] = "query"
  /\ LET all_messages == pg_query_messages(pg_messages, NoLimit)
         total_count == Len(all_messages)
     IN IF compression_due(total_count)
        THEN /\ tasks' = create_task(tasks, total_count)
             /\ compression_tasks' = compression_tasks \cup {Len(tasks) + 1}
             /\ triggers' = Append(triggers, [handler |-> h, total_count |-> total_count])
             /\ Return(h, "ok", frame[h].overflow, total_count)
        ELSE /\ Return(h, "ok", frame[h].overflow, 0)
             /\ UNCHANGED << tasks, compression_tasks, triggers >>
  /\ UNCHANGED << redis_vars, compressor_vars, table_vars, max_turns, cache_vars, session_maker, sessions, handle_use, buffer_vars, conversation, pg_messages, pg_summaries, pg_profile >>

\* mutant: the unit works through the handler's own storage
bg_storage_shared(unit) == ForegroundHandle

\* "bg_storage = PostgreSQLStorage(bg_session)": the storage the unit uses
\* is the one around the session it made itself
bg_storage(unit) == unit.handle

\* the unit ends: the task is done; its done-callbacks are only scheduled
\* (call_soon), so the task is still in self._compression_tasks
Finished(t, result) == /\ tasks' = [tasks EXCEPT ![t].state = "done", ![t].step = "done", ![t].result = result]
                       /\ compression_tasks' = compression_tasks

\* _compress_in_background up to its first await: without a session factory
\* it returns at once; otherwise it makes its own session
bg_start(t) ==
  /\ tasks[t].state = "scheduled"
  /\ IF ~session_maker
     THEN /\ Finished(t, "skipped")
          /\ UNCHANGED sessions
     ELSE /\ sessions' = Append(sessions, "open")
          /\ tasks' = [tasks EXCEPT ![t].state = "running", ![t].step = "query", ![t].handle = Len(sessions) + 1]
          /\ UNCHANGED compression_tasks
  /\ UNCHANGED << redis_vars, compressor_vars, table_vars, max_turns, cache_vars, session_maker, handle_use, buffer_vars, handler_vars, store_vars >>

\* "recent_messages = await bg_storage.query_messages(conversation_id,
\* limit=50)"; ok = FALSE: the query raises and the except clause takes over
bg_query(t, ok) ==
  /\ tasks[t].state = "running" /\ tasks[t].step = "query"
  /\ handle_use' = handle_use \cup {[task |-> t, handle |-> bg_storage(tasks[t]), op |-> "query_messages"]}
  /\ tasks' = IF ok THEN [tasks EXCEPT ![t].step = "compress", ![t].recent_messages = pg_query_messages(pg_messages, BlockSize)]
              ELSE [tasks EXCEPT ![t].step = "close", ![t].result = "failed"]
  /\ UNCHANGED << redis_vars, compressor_vars, table_vars, max_turns, cache_vars, session_maker, compression_tasks, sessions, buffer_vars, handler_vars, store_vars >>

\* the rest of the try block: summary, save_summary, extractor,
\* upsert_profile, every exception caught by "except Exception"
bg_compress(t, fail, updates) ==
  /\ tasks[t].state = "running" /\ tasks[t].step = "compress"
  /\ fail = "upsert_profile" => updates # << >>
  /\ LET body == compress_body(pg_summaries, pg_profile, tasks[t].recent_messages, tasks[t].total_count, fail, updates)
         saving == IF fail # "summarizer" THEN {"save_summary"} ELSE {}
         upserting == IF updates # << >> /\ (~body.raised \/ fail = "upsert_profile") THEN {"upsert_profile"} ELSE {}
     IN /\ pg_summaries' = body.summaries
        /\ pg_profile' = body.profile
        /\ handle_use' = handle_use \cup {[task |-> t, handle |-> bg_storage(tasks[t]), op |-> o] : o \in saving \cup upserting}
        /\ tasks' = [tasks EXCEPT ![t].step = "close", ![t].result = IF body.raised THEN "failed" ELSE "ok"]
  /\ UNCHANGED << redis_vars, compressor_vars, table_vars, max_turns, cache_vars, session_maker, compression_tasks, sessions, buffer_vars, handler_vars, conversation, pg_messages, triggers >>

\* "finally: await bg_session.close()"
close_session(handles, unit) == [handles EXCEPT ![unit.handle] = "closed"]

bg_close(t) ==
  /\ tasks[t].state = "running" /\ tasks[t].step = "close"
  /\ sessions' = close_session(sessions, tasks[t])
  /\ Finished(t, tasks[t].result)
  /\ UNCHANGED << redis_vars, compressor_vars, table_vars, max_turns, cache_vars, session_maker, handle_use, buffer_vars, handler_vars, store_vars >>

\* "task.add_done_callback(self._compression_tasks.discard)": the event loop
\* runs the callback of a task that is done, whatever its result
done_callback(t) ==
  /\ tasks[t].state = "done" /\ t \in compression_tasks
  /\ compression_tasks' = compression_tasks \ {t}
  /\ UNCHANGED << redis_vars, compressor_vars, table_vars, max_turns, cache_vars, session_maker, tasks, sessions, handle_use, buffer_vars, handler_vars, store_vars >>

\* add_message calls explored in asynchronous mode
MaxAddsAsync == 103

InitAsyncMode == /\ InitRedisKey /\ InitCompressor /\ InitTables /\ InitCache /\ InitAsync
                 /\ session_maker \in BOOLEAN
                 /\ max_turns = [h \in Handlers |-> 1]
                 /\ InitHandlers
                 /\ InitStore

NextAsync == \/ Len(added[1]) < MaxAddsAsync /\ add_message_call(1, TurnRole(Len(added[1]) + 1), Len(added[1]) + 1)
             \/ add_message_get_conversation(1, TRUE)
             \/ add_message_add_messages(1, TRUE)
             \/ MidTermMemoryAsync_count(1)
             \/ \E t \in 1..Len(tasks) : bg_start(t)
             \/ \E t \in 1..Len(tasks), ok \in BOOLEAN : bg_query(t, ok)
             \/ \E t \in 1..Len(tasks), fail \in FailPoints, updates \in ProfileUpdates : bg_compress(t, fail, updates)
             \/ \E t \in 1..Len(tasks) : bg_close(t)
             \/ \E t \in 1..Len(tasks) : done_callback(t)

SpecAsync == InitAsyncMode /\ [][NextAsync]_vars

\* the step in which an add_message call of h that triggered a compaction returns
TriggeringAddReturns(h) == pc[h] # "idle" /\ pc'[h] = "idle" /\ outcome'[h].op = "add_message" /\ outcome'[h].triggered > 0

\* C9: in asynchronous mode the add_message call that triggers a compaction
\* returns normally in the step that creates the background unit: the unit
\* has not run (it is scheduled, not finished), and no summary or profile
\* write and no summarizer result is part of that step.
C9_AddReturnsBeforeCompaction == [][\A h \in Handlers : TriggeringAddReturns(h) =>
                                      /\ outcome'[h].status = "ok"
                                      /\ Len(tasks') = Len(tasks) + 1
                                      /\ tasks'[Len(tasks')].state = "scheduled"
                                      /\ tasks'[Len(tasks')].total_count = outcome'[h].triggered
                                      /\ pg_summaries' = pg_summaries /\ pg_profile' = pg_profile]_vars

\* C9 witness: the triggering call has returned and its unit is unfinished
C9_Witness == /\ pc[1] = "idle" /\ outcome[1].op = "add_message" /\ outcome[1].status = "ok"
              /\ outcome[1].triggered = BlockSize
              /\ Len(tasks) = 1 /\ tasks[1].state = "running"
              /\ pg_summaries = << >>

\* C10: every storage operation of a background unit went through a handle
\* that the session factory made for that unit, never through the
\* foreground handle, no two units share a handle, and the handle of a unit
\* that has ended is closed, whatever the result of the unit.
C10_UnitsUseTheirOwnHandle == /\ \A u \in handle_use : u.handle # ForegroundHandle /\ u.handle \in 1..Len(sessions) /\ u.handle = tasks[u.task].handle
                              /\ \A t1, t2 \in 1..Len(tasks) : (tasks[t1].handle # ForegroundHandle /\ tasks[t1].handle = tasks[t2].handle) => t1 = t2
                              /\ \A t \in 1..Len(tasks) : (tasks[t].state = "done" /\ tasks[t].handle # ForegroundHandle) => sessions[tasks[t].handle] = "closed"

\* C10 witness: a unit failed after using its handle and has ended, with
\* the handle closed, while another unit succeeded
C10_Witness == /\ Len(tasks) = 2
               /\ tasks[1].state = "done" /\ tasks[1].result = "failed"
               /\ \E u \in handle_use : u.task = 1 /\ u.op = "save_summary"
               /\ sessions[tasks[1].handle] = "closed"
               /\ tasks[2].state = "done" /\ tasks[2].result = "ok"

\* =============================================== wait_for_compression
\* the units of a set that are done
Done(units) == {t \in units : tasks[t].state = "done"}

\* MidTermMemoryAsync.wait_for_compression up to its await.  Nothing is
\* awaited when the tracking set is empty.  Otherwise gather is given the
\* tracked tasks; eager: asyncio.gather completes at once when every task it
\* is given is already done (CPython 3.12 and later), so the await does not
\* suspend; older event loops schedule gather's callback behind the pending
\* discard callbacks.
wait_for_compression_call(h, eager) ==
  /\ pc[h] = "idle"
  /\ IF compression_tasks = {} \/ (eager /\ Done(compression_tasks) = compression_tasks)
     THEN /\ outcome' = [outcome EXCEPT ![h] = [NoOutcome EXCEPT !.op = "wait_for_compression", !.value = compression_tasks]]
          /\ UNCHANGED pc
     ELSE /\ outcome' = [outcome EXCEPT ![h] = [Running("wait_for_compression") EXCEPT !.value = compression_tasks]]
          /\ pc' = [pc EXCEPT ![h] = "gather"]
  /\ UNCHANGED << redis_vars, compressor_vars, table_vars, max_turns, cache_vars, async_vars, buffer_vars, frame, raised, store_vars >>

\* "await asyncio.gather(*self._compression_tasks, return_exceptions=True)":
\* gather's callback on each task was added after the discard callback and
\* runs after it; the awaiting call resumes when the last one has run, and
\* wait_for_compression returns None.  return_exceptions=True turns a
\* unit's exception into a result.
wait_for_compression_gather(h) ==
  /\ pc[h] = "gather"
  /\ Done(outcome[h].value) = outcome[h].value
  /\ outcome[h].value \cap compression_tasks = {}
  /\ Return(h, "ok", << >>, 0)
  /\ UNCHANGED << redis_vars, compressor_vars, table_vars, max_turns, cache_vars, async_vars, buffer_vars, store_vars >>

\* add_message calls explored together with wait_for_compression
MaxAddsDrain == 52

NextDrain == \/ Len(added[1]) < MaxAddsDrain /\ add_message_call(1, TurnRole(Len(added[1]) + 1), Len(added[1]) + 1)
             \/ add_message_get_conversation(1, TRUE)
             \/ add_message_add_messages(1, TRUE)
             \/ MidTermMemoryAsync_count(1)
             \/ \E t \in 1..Len(tasks) : bg_start(t)
             \/ \E t \in 1..Len(tasks), ok \in BOOLEAN : bg_query(t, ok)
             \/ \E t \in 1..Len(tasks), fail \in FailPoints, updates \in ProfileUpdates : bg_compress(t, fail, updates)
             \/ \E t \in 1..Len(tasks) : bg_close(t)
             \/ \E t \in 1..Len(tasks) : done_callback(t)
             \/ \E eager \in BOOLEAN : wait_for_compression_call(1, eager)
             \/ wait_for_compression_gather(1)

SpecDrain == InitAsyncMode /\ [][NextDrain]_vars

\* C11: when wait_for_compression has returned, it returned normally, every
\* unit that was tracked when it was called has finished and has been removed
\* from the tracking set, and (no unit can have been started in between by
\* the one caller) the tracking set is empty.
C11_DrainLeavesNothingTracked == \A h \in Handlers : (pc[h] = "idle" /\ outcome[h].op = "wait_for_compression") =>
                                    /\ outcome[h].status = "ok"
                                    /\ Done(outcome[h].value) = outcome[h].value
                                    /\ outcome[h].value \cap compression_tasks = {}
                                    /\ compression_tasks = {}

\* ============================ PostgreSQLStorage.get_or_create_conversation
UserIds == {"u1"}
SessionIds == {"s1", "s2"}
\* title: Optional[str] = None
NoTitle == "None"
Titles == {NoTitle, "t1", "t2"}

\* the rows of the conversations table with this (user_id, session_id)
select_conversation(rows, user_id, session_id) == {i \in 1..Len(rows) : rows[i].user_id = user_id /\ rows[i].session_id = session_id}

\* UniqueConstraint('user_id', 'session_id', name='uq_user_session')
uq_user_session(rows, user_id, session_id) == select_conversation(rows, user_id, session_id) = {}

\* mutant: a call for an existing pair writes its title to the row
get_existing_retitled(rows, i, title) == IF title = NoTitle THEN rows ELSE [rows EXCEPT ![i].title = title]

\* "if conversation is None" is false: the row found is returned, nothing
\* is added or committed
get_existing(rows, i, title) == rows

\* the call with its arguments; both handlers have their own session
get_or_create_call(h, user_id, session_id, title) ==
  /\ pc[h] = "idle"
  /\ pc' = [pc EXCEPT ![h] = "select"]
  /\ outcome' = [outcome EXCEPT ![h] = [Running("get_or_create_conversation") EXCEPT !.value = [user_id |-> user_id, session_id |-> session_id, title |-> title, found |-> FALSE, id |-> 0]]]
  /\ UNCHANGED << redis_vars, compressor_vars, table_vars, max_turns, cache_vars, async_vars, buffer_vars, frame, raised, store_vars >>

\* "result = await self.session.execute(stmt)" and scalar_one_or_none
get_or_create_select(h) ==
  /\ pc[h] = "select"
  /\ LET call == outcome[h].value
         found == select_conversation(conversations, call.user_id, call.session_id)
     IN IF found # {}
        THEN LET i == CHOOSE j \in found : TRUE
             IN /\ conversations' = get_existing(conversations, i, call.title)
                /\ outcome' = [outcome EXCEPT ![h].value = [call EXCEPT !.found = TRUE, !.id = conversations[i].id], ![h].status = "ok"]
                /\ pc' = [pc EXCEPT ![h] = "idle"]
        ELSE /\ pc' = [pc EXCEPT ![h] = "commit"]
             /\ UNCHANGED << conversations, outcome >>
  /\ UNCHANGED << redis_vars, compressor_vars, user_profiles, message_rows, db_now, summary_rows, db_calls, max_turns, cache_vars, async_vars, buffer_vars, frame, raised, store_vars >>

\* "self.session.add(conversation); await self.session.commit(); await
\* self.session.refresh(conversation)": the INSERT violates uq_user_session
\* when another session has committed the pair since the SELECT, and the
\* IntegrityError is not caught
get_or_create_commit(h) ==
  /\ pc[h] = "commit"
  /\ LET call == outcome[h].value
         id == Len(conversations) + 1
     IN IF uq_user_session(conversations, call.user_id, call.session_id)
        THEN /\ conversations' = Append(conversations, [id |-> id, user_id |-> call.user_id, session_id |-> call.session_id, title |-> call.title, created_title |-> call.title])
             /\ outcome' = [outcome EXCEPT ![h].value = [call EXCEPT !.id = id], ![h].status = "ok"]
             /\ UNCHANGED raised
        ELSE /\ outcome' = [outcome EXCEPT ![h].status = "raised"]
             /\ raised' = [raised EXCEPT ![h] = TRUE]
             /\ UNCHANGED conversations
  /\ pc' = [pc EXCEPT ![h] = "idle"]
  /\ UNCHANGED << redis_vars, compressor_vars, user_profiles, message_rows, db_now, summary_rows, db_calls, max_turns, cache_vars, async_vars, buffer_vars, frame, store_vars >>

InitConv == /\ InitRedisKey /\ InitCompressor /\ InitTables /\ InitCache /\ InitAsync /\ session_maker = FALSE
            /\ max_turns = [h \in Handlers |-> 1]
            /\ InitHandlers
            /\ InitStore

NextConv == \/ \E h \in Handlers, u \in UserIds, s \in SessionIds, t \in Titles : get_or_create_call(h, u, s, t)
            \/ \E h \in Handlers : get_or_create_select(h)
            \/ \E h \in Handlers : get_or_create_commit(h)

SpecConv == InitConv /\ [][NextConv]_vars

\* a get_or_create_conversation call of h has ended
Ended(h) == pc[h] = "idle" /\ outcome[h].op = "get_or_create_conversation"

\* C12: get_or_create_conversation calls on separate handles, also when
\* they overlap while the pair has no row, all return normally, and calls
\* for the same pair return the same id.
C12_ConcurrentCreateReturnsSameId == /\ \A h \in Handlers : Ended(h) => outcome[h].status = "ok"
                                     /\ \A g, h \in Handlers : (Ended(g) /\ Ended(h) /\ outcome[g].value.user_id = outcome[h].value.user_id /\ outcome[g].value.session_id = outcome[h].value.session_id) => outcome[g].value.id = outcome[h].value.id

\* C13: there is at most one row per (user_id, session_id); no row's title
\* differs from the title it was created with; and a call that found the
\* row of its pair returned that row's id, whatever title it passed.
C13_OneRowPerPair == /\ \A i, j \in 1..Len(conversations) : (conversations[i].user_id = conversations[j].user_id /\ conversations[i].session_id = conversations[j].session_id) => i = j
                     /\ \A i \in 1..Len(conversations) : conversations[i].title = conversations[i].created_title /\ conversations[i].id = i
                     /\ \A h \in Handlers : (Ended(h) /\ outcome[h].status = "ok") => select_conversation(conversations, outcome[h].value.user_id, outcome[h].value.session_id) = {outcome[h].value.id}

\* C13 witness: a call with another title found the row created with "t1"
C13_Witness == /\ Ended(1) /\ outcome[1].status = "ok" /\ outcome[1].value.found
               /\ outcome[1].value.title = "t2"
               /\ conversations[outcome[1].value.id].title = "t1"
               /\ Len(conversations) = 1

\* ================== PostgreSQLStorage.upsert_profile / get_profile
ConversationIds == {1, 2}
ProfileDataKeys == {"name", "city"}
ProfileDataValues == {"Tom", "Ann"}
\* profile_data: Dict[str, str], a map from some keys to values
ProfileData == UNION {[K -> ProfileDataValues] : K \in SUBSET ProfileDataKeys}

\* mutant: ON CONFLICT DO NOTHING, the row of an existing key is kept
upsert_do_nothing(rows, conversation_id, profile_data) ==
  rows \cup {[conversation_id |-> conversation_id, profile_key |-> k, profile_value |-> profile_data[k]] : k \in {q \in DOMAIN profile_data : \A r \in rows : ~(r.conversation_id = conversation_id /\ r.profile_key = q)}}

\* one INSERT ... ON CONFLICT (conversation_id, profile_key) DO UPDATE SET
\* profile_value per item of profile_data, then commit
pg_upsert_profile_rows(rows, conversation_id, profile_data) ==
  {r \in rows : ~(r.conversation_id = conversation_id /\ r.profile_key \in DOMAIN profile_data)}
    \cup {[conversation_id |-> conversation_id, profile_key |-> k, profile_value |-> profile_data[k]] : k \in DOMAIN profile_data}

\* SELECT ... WHERE conversation_id = :id, as {profile_key: profile_value}
pg_get_profile(rows, conversation_id) ==
  LET mine == {r \in rows : r.conversation_id = conversation_id}
  IN [k \in {r.profile_key : r \in mine} |-> (CHOOSE r \in mine : r.profile_key = k).profile_value]

\* what the caller before this one did, as kept in the outcome
NoCall == [conversation_id |-> 0, profile_data |-> << >>, before |-> {}]

\* PostgreSQLStorage.upsert_profile(conversation_id, profile_data); the
\* outcome keeps the arguments, the table before the call and the call before
upsert_profile(h, conversation_id, profile_data) ==
  /\ pc[h] = "idle"
  /\ user_profiles' = pg_upsert_profile_rows(user_profiles, conversation_id, profile_data)
  /\ outcome' = [outcome EXCEPT ![h] = [NoOutcome EXCEPT !.op = "upsert_profile",
                   !.value = [conversation_id |-> conversation_id, profile_data |-> profile_data, before |-> user_profiles,
                              previous |-> IF outcome[h].op = "upsert_profile" THEN [conversation_id |-> outcome[h].value.conversation_id, profile_data |-> outcome[h].value.profile_data, before |-> outcome[h].value.before] ELSE NoCall]]]
  /\ UNCHANGED << redis_vars, compressor_vars, conversations, message_rows, db_now, summary_rows, db_calls, max_turns, cache_vars, async_vars, buffer_vars, pc, frame, raised, store_vars >>

NextProfile == \E c \in ConversationIds, m \in ProfileData : upsert_profile(1, c, m)

SpecProfile == InitConv /\ [][NextProfile]_vars

\* m2's value for the keys of m2, m1's value for the keys only in m1, and
\* the earlier value for the keys in neither
Merged(m0, m1, m2) == [k \in DOMAIN m0 \cup DOMAIN m1 \cup DOMAIN m2 |-> IF k \in DOMAIN m2 THEN m2[k] ELSE IF k \in DOMAIN m1 THEN m1[k] ELSE m0[k]]

\* upsert_profile(c, m1) was followed by upsert_profile(c, m2)
TwoUpserts == outcome[1].op = "upsert_profile" /\ outcome[1].value.previous.conversation_id = outcome[1].value.conversation_id

\* C14: after upsert_profile(c, m1) followed by upsert_profile(c, m2),
\* get_profile(c) has the union of the keys (and the keys c had before),
\* m2's value for every key of m2 and m1's value for keys only in m1; no
\* (conversation, key) has two rows; every other conversation's profile is
\* what it was before the two calls.
C14_UpsertMergesLaterWins == /\ \A r1, r2 \in user_profiles : (r1.conversation_id = r2.conversation_id /\ r1.profile_key = r2.profile_key) => r1 = r2
                             /\ TwoUpserts => LET call == outcome[1].value
                                                  c == call.conversation_id
                                              IN /\ pg_get_profile(user_profiles, c) = Merged(pg_get_profile(call.previous.before, c), call.previous.profile_data, call.profile_data)
                                                 /\ \A o \in ConversationIds \ {c} : pg_get_profile(user_profiles, o) = pg_get_profile(call.previous.before, o)

\* C14 witness: m1 = {name: Tom, city: Ann} then m2 = {name: Ann} on a
\* conversation without profile, while the other conversation has one
C14_Witness == /\ TwoUpserts
               /\ outcome[1].value.conversation_id = 1
               /\ pg_get_profile(outcome[1].value.previous.before, 1) = << >>
               /\ pg_get_profile(outcome[1].value.previous.before, 2) # << >>
               /\ DOMAIN outcome[1].value.previous.profile_data = {"name", "city"}
               /\ outcome[1].value.previous.profile_data["name"] = "Tom"
               /\ DOMAIN outcome[1].value.profile_data = {"name"}
               /\ outcome[1].value.profile_data["name"] = "Ann"
               /\ pg_get_profile(user_profiles, 1)["name"] = "Ann"
               /\ pg_get_profile(user_profiles, 1)["city"] = outcome[1].value.previous.profile_data["city"]

\* ===================== the messages handed to the summarizer (synchronous)
\* the messages at positions c-49..c of the conversation, in the order persisted
block_of(rows, c) == SubSeq(rows, c - (BlockSize - 1), c)

\* C15: every summary of the synchronous compaction was made from the 50
\* messages persisted last when it triggered at count c, i.e. positions
\* c-49..c, the range its label names (compared as sets, whatever the order
\* in which they were handed over).
C15_SummarizedAreTheLatest == \A i \in 1..Len(pg_summaries) : Range(pg_summaries[i].of) = Range(block_of(pg_messages, pg_summaries[i].time_range[2]))

\* ======================= MidTermMemoryWithRedis with the cache unreachable
\* query_messages when a cache call raises.  at = "read": "cached = await
\* self.redis.get_cached_messages(...)" raises before anything is counted.
\* at = "write": the read missed, PostgreSQL answered, and "await
\* self.redis.cache_messages(...)" raises.  Neither call is inside a try.
WithRedis_query_messages_unreachable(h, limit, at) ==
  /\ pc[h] = "idle"
  /\ at \in {"read", "write"}
  /\ IF at = "read"
     THEN /\ UNCHANGED << cache_misses, conversation >>
     ELSE /\ get_cached_messages(cache) = << >>
          /\ query_miss_result(pg_messages, limit) # << >>
          /\ cache_misses' = cache_misses + 1
          /\ conversation' = TRUE
  /\ outcome' = [outcome EXCEPT ![h] = [NoOutcome EXCEPT !.op = "query_messages", !.status = "raised"]]
  /\ raised' = [raised EXCEPT ![h] = TRUE]
  /\ UNCHANGED << redis_vars, compressor_vars, table_vars, max_turns, cache, cache_hits, async_vars, buffer_vars, pc, frame, pg_messages, pg_summaries, pg_profile, triggers >>

\* add_message when "await self.redis.cache_messages(...)" raises: the batch
\* is committed already and the exception leaves add_message
WithRedis_cache_write_unreachable(h) ==
  /\ pc[h] = "cache_write"
  /\ Return(h, "raised", frame[h].overflow, 0)
  /\ UNCHANGED << redis_vars, compressor_vars, table_vars, max_turns, cache_vars, async_vars, buffer_vars, store_vars >>

\* calls of query_messages that find the cache unreachable
MaxUnreachable == 2

NextCacheDown == \/ \E r \in Roles : Len(added[1]) < MaxAddsRedis /\ add_message_call(1, r, Len(added[1]) + 1)
                 \/ add_message_get_conversation(1, TRUE)
                 \/ add_message_add_messages(1, TRUE)
                 \/ WithRedis_read_all(1)
                 \/ WithRedis_cache_write(1)
                 \/ WithRedis_cache_write_unreachable(1)
                 \/ \E limit \in Limits : cache_hits + cache_misses < MaxUnreachable /\ WithRedis_query_messages(1, limit)
                 \/ \E limit \in Limits, at \in {"read", "write"} : cache_hits + cache_misses < MaxUnreachable /\ WithRedis_query_messages_unreachable(1, limit, at)
                 \/ CacheExpire

SpecCacheDown == InitRedis /\ [][NextCacheDown]_vars

\* C17: with the store working and the cache failing at any call, no
\* query_messages and no add_message call ends with an exception.
C17_CacheErrorsAreContained == \A h \in Handlers : pc[h] = "idle" => outcome[h].status # "raised"

\* a step that is a query_messages call
QueryStep == outcome'[1].op = "query_messages" /\ (cache_hits' # cache_hits \/ cache_misses' # cache_misses)

\* C18: every query_messages call counts as exactly one hit or one miss,
\* and a call that missed leaves an entry in the cache, so that the next
\* call is a hit, also for a conversation without persisted messages.
C18_MissPopulatesCache == [][QueryStep => /\ (cache_hits' + cache_misses') = (cache_hits + cache_misses) + 1
                                          /\ cache_misses' = cache_misses + 1 => get_cached_messages(cache') # << >>]_vars

\* ================================= RedisStorage.add_message (Lua script)
\* RedisStorage(max_messages=...) explored up to this capacity
RedisMaxMessagesBound == 2
\* RedisStorage(ttl=...), in seconds
TtlSeconds == 2
Timestamps == {1, 2}

\* json.dumps({"role": role, "content": content, "timestamp": timestamp}):
\* the member of the sorted set
json_dumps(role, content, timestamp) == [role |-> role, content |-> content, timestamp |-> timestamp]

\* the score of a timestamp, in thousandths (the script perturbs by 0.001)
Score(timestamp) == timestamp * 1000

\* lexicographic order of two members as JSON text: the role comes first,
\* then the content, then the timestamp
RoleRank(role) == IF role = "assistant" THEN 1 ELSE 2
ContentRank(content) == IF content = "a" THEN 1 ELSE 2
MemberBefore(m1, m2) == \/ RoleRank(m1.role) < RoleRank(m2.role)
                        \/ RoleRank(m1.role) = RoleRank(m2.role) /\ ContentRank(m1.content) < ContentRank(m2.content)
                        \/ RoleRank(m1.role) = RoleRank(m2.role) /\ ContentRank(m1.content) = ContentRank(m2.content) /\ m1.timestamp < m2.timestamp

\* rank order of a sorted set: by score, equal scores by member
Below(e1, e2) == e1.score < e2.score \/ (e1.score = e2.score /\ MemberBefore(e1.member, e2.member))

\* ZSCORE key member: whether the member is in the set
ZSCORE(set, member) == \E e \in set : e.member = member

\* "while redis.call('ZSCORE', messages_key, message) do timestamp =
\* timestamp + 0.001 end": the condition does not depend on timestamp, so
\* the loop is skipped when the member is absent and never exits otherwise
collision_loop_exits(set, message) == ~ZSCORE(set, message)

\* ZADD key score member
ZADD(set, score, member) == {e \in set : e.member # member} \cup {[score |-> score, member |-> member]}

\* mutant: the trim removes from the top of the ranking
ZREMRANGEBYRANK_top(set, n) == {e \in set : Cardinality({f \in set : Below(e, f)}) >= n}

\* ZREMRANGEBYRANK key 0 n-1: the n lowest-ranked entries are removed
ZREMRANGEBYRANK(set, n) == {e \in set : Cardinality({f \in set : Below(f, e)}) >= n}

\* the script after the loop: ZADD, ZCARD, trim; returns the set and the
\* count read before the trim
ADD_MESSAGE_SCRIPT(set, message, timestamp, max_count) ==
  LET inserted == ZADD(set, Score(timestamp), message)
      count == Cardinality(inserted)
  IN [zset |-> IF count > max_count THEN ZREMRANGEBYRANK(inserted, count - max_count) ELSE inserted, count |-> count]

\* EXPIRE key ttl
EXPIRE(remaining, ttl) == ttl

\* RedisStorage.add_message on the client: the message is built and EVALSHA
\* is sent
RedisStorage_add_message(c, role, content, timestamp) ==
  /\ replies[c].state \in {"idle", "done"}
  /\ replies' = [replies EXCEPT ![c] = [state |-> "sent", member |-> json_dumps(role, content, timestamp), timestamp |-> timestamp, count |-> 0]]
  /\ UNCHANGED << redis_keys, redis_max_messages, zset, key_ttl, redis_busy, zadded, compressor_vars, table_vars, max_turns, cache_vars, async_vars, buffer_vars, handler_vars, store_vars >>

\* the server runs the script of client c, one script at a time
redis_evalsha(c) ==
  /\ replies[c].state = "sent"
  /\ ~redis_busy
  /\ IF collision_loop_exits(zset, replies[c].member)
     THEN LET result == ADD_MESSAGE_SCRIPT(zset, replies[c].member, replies[c].timestamp, redis_max_messages)
          IN /\ zset' = result.zset
             /\ zadded' = zadded \cup {[score |-> Score(replies[c].timestamp), member |-> replies[c].member]}
             /\ key_ttl' = EXPIRE(key_ttl, TtlSeconds)
             /\ replies' = [replies EXCEPT ![c].state = "done", ![c].count = result.count]
             /\ UNCHANGED redis_busy
     ELSE /\ redis_busy' = TRUE
          /\ replies' = [replies EXCEPT ![c].state = "running"]
          /\ UNCHANGED << zset, zadded, key_ttl >>
  /\ UNCHANGED << redis_keys, redis_max_messages, compressor_vars, table_vars, max_turns, cache_vars, async_vars, buffer_vars, handler_vars, store_vars >>

\* a second passes; the key is deleted when its time to live runs out
redis_second ==
  /\ key_ttl > 0 /\ ~redis_busy
  /\ key_ttl' = key_ttl - 1
  /\ IF key_ttl = 1 THEN zset' = {} /\ zadded' = {} ELSE UNCHANGED << zset, zadded >>
  /\ UNCHANGED << redis_keys, redis_max_messages, redis_busy, replies, compressor_vars, table_vars, max_turns, cache_vars, async_vars, buffer_vars, handler_vars, store_vars >>

InitZset == /\ InitCompressor /\ InitTables /\ InitCache /\ InitAsync /\ session_maker = FALSE
            /\ max_turns = [h \in Handlers |-> 1]
            /\ InitHandlers
            /\ InitStore
            /\ redis_max_messages \in 0..RedisMaxMessagesBound
            /\ redis_keys = {}
            /\ zset = {} /\ key_ttl = 0 /\ redis_busy = FALSE /\ zadded = {}
            /\ replies = [c \in {1, 2} |-> NoReply]

NextZset == \/ \E c \in {1, 2}, role \in Roles, timestamp \in Timestamps : RedisStorage_add_message(c, role, "a", timestamp)
            \/ \E c \in {1, 2} : redis_evalsha(c)
            \/ redis_second

SpecZset == InitZset /\ [][NextZset]_vars

\* the n highest-ranked entries of a set
Highest(set, n) == {e \in set : Cardinality({f \in set : Below(e, f)}) < n}

\* the script of client c has run to its end in this step
ScriptDone(c) == replies[c].state = "sent" /\ replies'[c].state = "done"

MaxCompressLen == 3
\* most tokens the counter gives one message
MaxTokenCount == 2
\* largest max_tokens
MaxBudget == 4

\* sum(self.token_counter(m['content']) for m in messages)
RECURSIVE total_tokens(_, _)
total_tokens(counter, msgs) == IF msgs = << >> THEN 0 ELSE counter[Head(msgs).content] + total_tokens(counter, Tail(msgs))

\* mutant: the newest message is removed, compressed.pop()
RECURSIVE pop_newest_while_over(_, _, _, _)
pop_newest_while_over(counter, budget, kept, current_tokens) ==
  IF kept # << >> /\ current_tokens > budget
  THEN pop_newest_while_over(counter, budget, SubSeq(kept, 1, Len(kept) - 1), current_tokens - counter[kept[Len(kept)].content])
  ELSE kept

\* "while compressed and current_tokens > self.max_tokens: removed =
\* compressed.pop(0); current_tokens -= self.token_counter(removed['content'])"
RECURSIVE pop_while_over(_, _, _, _)
pop_while_over(counter, budget, kept, current_tokens) ==
  IF kept # << >> /\ current_tokens > budget
  THEN pop_while_over(counter, budget, Tail(kept), current_tokens - counter[Head(kept).content])
  ELSE kept

\* TokenBasedCompressor.compress
compress(counter, budget, msgs) ==
  IF msgs = << >> THEN msgs
  ELSE IF total_tokens(counter, msgs) <= budget THEN msgs
  ELSE pop_while_over(counter, budget, msgs, total_tokens(counter, msgs))

\* the lists of at most MaxCompressLen messages, roles alternating
CompressInputs == UNION {[1..n -> Contents] : n \in 0..MaxCompressLen}
AsMessages(contents) == [i \in 1..Len(contents) |-> [role |-> TurnRole(i), content |-> contents[i]]]

InitCompress == /\ InitRedisKey /\ InitTables /\ InitCache /\ InitAsync /\ session_maker = FALSE
                /\ max_turns = [h \in Handlers |-> 1]
                /\ InitHandlers
                /\ InitStore
                /\ compressor = NoCompressor
                /\ comp_calls = << >>
                /\ token_counter \in [Contents -> 0..MaxTokenCount]
                /\ compressor_max_tokens \in 0..MaxBudget
                /\ \E contents \in CompressInputs : comp_messages = AsMessages(contents)
                /\ compressed = NotCompressed

\* compressor.compress(messages)
TokenBasedCompressor_compress ==
  /\ compressed = NotCompressed
  /\ compressed' = compress(token_counter, compressor_max_tokens, comp_messages)
  /\ UNCHANGED << redis_vars, compressor, comp_calls, token_counter, compressor_max_tokens, comp_messages, table_vars, max_turns, cache_vars, async_vars, buffer_vars, handler_vars, store_vars >>

NextCompress == TokenBasedCompressor_compress

SpecCompress == InitCompress /\ [][NextCompress]_vars

\* s is what is left of t after removing some of its first elements
IsSuffix(s, t) == Len(s) <= Len(t) /\ s = SubSeq(t, Len(t) - Len(s) + 1, Len(t))

C20_ZeroBudgetGivesEmpty == (compressed # NotCompressed /\ compressor_max_tokens = 0 /\ comp_messages # << >>) => compressed = << >>

\* ============ SlidingWindowCompressor, LLMSummaryCompressor, HybridCompressor
\* largest keep_turns / keep_recent_turns
MaxKeepTurns == 1
\* largest threshold_turns
MaxThresholdTurns == 2
\* longest list given to these compressors
MaxStrategyLen == 4
\* compress calls made on one compressor
MaxCompressCalls == 2

\* Python's messages[-n:]: -0 is 0, so n = 0 gives the whole list; for
\* n < 0 the index -n counts from the front and the first -n entries go
slice_last(msgs, n) == IF n = 0 THEN msgs
                       ELSE IF n > 0 THEN LastN(msgs, n)
                       ELSE SubSeq(msgs, 1 - n, Len(msgs))

\* Python's messages[:-n]: n = 0 gives the empty list; for n < 0 the
\* first -n entries
slice_before_last(msgs, n) == IF n = 0 THEN << >>
                              ELSE IF n > 0 THEN SubSeq(msgs, 1, Len(msgs) - n)
                              ELSE SubSeq(msgs, 1, IF 0 - n < Len(msgs) THEN 0 - n ELSE Len(msgs))

\* SlidingWindowCompressor.compress with keep_messages = keep_turns * 2
SlidingWindowCompressor_compress(keep_turns, msgs) ==
  IF Len(msgs) <= keep_turns * 2 THEN msgs ELSE slice_last(msgs, keep_turns * 2)

\* what self.llm.chat does when _summarize calls it
LlmResults == {"ok", "fails"}

\* mutant: the exception of llm.chat is not caught
summarize_uncaught(history, llm) ==
  IF llm = "ok" THEN [raised |-> FALSE, source |-> "llm", count |-> 0]
  ELSE [raised |-> TRUE, source |-> "none", count |-> 0]

\* LLMSummaryCompressor._summarize: the stripped reply of llm.chat, or in
\* the except clause the text that ends with "历史对话包含 {len(messages)}
\* 条消息"
summarize(history, llm) ==
  IF llm = "ok" THEN [raised |-> FALSE, source |-> "llm", count |-> 0]
  ELSE [raised |-> FALSE, source |-> "fallback", count |-> Len(history)]

\* {"role": "system", "content": f"📝 对话历史摘要：\n{summary}"}
summary_entry(summary) == [role |-> "system", content |-> "history summary", source |-> summary.source, count |-> summary.count]

\* LLMSummaryCompressor.compress: what is returned, how often llm.chat was
\* called, and whether an exception left the call
LLMSummaryCompressor_compress(keep_recent_turns, msgs, llm) ==
  LET keep_recent_messages == keep_recent_turns * 2
      recent_messages == slice_last(msgs, keep_recent_messages)
      history_messages == slice_before_last(msgs, keep_recent_messages)
      summary == summarize(history_messages, llm)
  IN IF Len(msgs) <= keep_recent_messages THEN [returned |-> msgs, llm_calls |-> 0, raised |-> FALSE]
     ELSE IF history_messages = << >> THEN [returned |-> recent_messages, llm_calls |-> 0, raised |-> FALSE]
     ELSE IF summary.raised THEN [returned |-> << >>, llm_calls |-> 1, raised |-> TRUE]
     ELSE [returned |-> << summary_entry(summary) >> \o recent_messages, llm_calls |-> 1, raised |-> FALSE]

\* mutant: the threshold itself already selects the summarizing strategy
threshold_exclusive(message_count, threshold_turns) == message_count < threshold_turns * 2

\* "if message_count <= self.threshold_messages", threshold_messages =
\* threshold_turns * 2
within_threshold(message_count, threshold_turns) == message_count <= threshold_turns * 2

\* HybridCompressor.compress; used names the sub-compressor that ran
HybridCompressor_compress(threshold_turns, keep_recent_turns, msgs, llm) ==
  IF within_threshold(Len(msgs), threshold_turns)
  THEN [returned |-> SlidingWindowCompressor_compress(keep_recent_turns, msgs), llm_calls |-> 0, raised |-> FALSE, used |-> "SlidingWindow"]
  ELSE LLMSummaryCompressor_compress(keep_recent_turns, msgs, llm) @@ [used |-> "LLMSummary"]

\* HybridCompressor.get_current_strategy
get_current_strategy(threshold_turns, msgs) == IF Len(msgs) <= threshold_turns * 2 THEN "SlidingWindow" ELSE "LLMSummary"

\* mutant: TokenBasedCompressor pops from the list it was given
popped_in_place(msgs, result) == result

\* "compressed = messages[:]": the loop pops from a copy, the list that was
\* passed keeps its entries; the other compressors only read and slice
argument_after(msgs, result) == msgs

\* compress of the compressor c on msgs: the result, the entries of the
\* argument after the call, the calls of llm.chat, the strategy that ran
compress_call(c, counter, budget, msgs, llm) ==
  IF c.kind = "SlidingWindow"
  THEN [returned |-> SlidingWindowCompressor_compress(c.keep_turns, msgs), messages |-> msgs, llm_calls |-> 0, raised |-> FALSE, used |-> "SlidingWindow"]
  ELSE IF c.kind = "LLMSummary"
  THEN LLMSummaryCompressor_compress(c.keep_turns, msgs, llm) @@ [messages |-> msgs, used |-> "LLMSummary"]
  ELSE IF c.kind = "Hybrid"
  THEN HybridCompressor_compress(c.threshold_turns, c.keep_turns, msgs, llm) @@ [messages |-> msgs]
  ELSE [returned |-> compress(counter, budget, msgs), messages |-> argument_after(msgs, compress(counter, budget, msgs)), llm_calls |-> 0, raised |-> FALSE, used |-> "TokenBased"]

\* the values of keep_turns, keep_recent_turns: the constructors take
\* any integer
KeepTurnsValues == (0 - 1)..MaxKeepTurns

\* the compressors that are constructed
Compressors ==
  {[kind |-> k, keep_turns |-> n, threshold_turns |-> 0] : k \in {"SlidingWindow", "LLMSummary"}, n \in KeepTurnsValues}
  \cup {[kind |-> "Hybrid", keep_turns |-> n, threshold_turns |-> t] : n \in KeepTurnsValues, t \in 0..MaxThresholdTurns}
  \cup {[kind |-> "TokenBased", keep_turns |-> 0, threshold_turns |-> 0]}

\* the lists of at most MaxStrategyLen messages, roles alternating
StrategyInputs == UNION {[1..n -> Contents] : n \in 0..MaxStrategyLen}

InitStrategies == /\ InitRedisKey /\ InitTables /\ InitCache /\ InitAsync /\ session_maker = FALSE
                  /\ max_turns = [h \in Handlers |-> 1]
                  /\ InitHandlers
                  /\ InitStore
                  /\ compressor \in Compressors
                  /\ comp_calls = << >>
                  /\ IF compressor.kind = "TokenBased"
                     THEN token_counter \in [Contents -> 0..MaxTokenCount] /\ compressor_max_tokens \in 0..MaxBudget
                     ELSE token_counter = [c \in Contents |-> 0] /\ compressor_max_tokens = 0
                  /\ \E contents \in StrategyInputs : comp_messages = AsMessages(contents)
                  /\ compressed = NotCompressed

\* one call compressor.compress(msgs), with get_current_strategy(msgs)
\* asked of a HybridCompressor just before it
compress_record(target, msgs, llm) ==
  [on |-> target, input |-> msgs, llm |-> llm,
   strategy |-> IF compressor.kind = "Hybrid" THEN get_current_strategy(compressor.threshold_turns, msgs) ELSE compressor.kind]
  @@ compress_call(compressor, token_counter, compressor_max_tokens, msgs, llm)

\* compressor.compress(messages) on the caller's list
Compressor_compress(llm) ==
  /\ Len(comp_calls) < MaxCompressCalls
  /\ comp_calls' = Append(comp_calls, compress_record("messages", comp_messages, llm))
  /\ comp_messages' = compress_record("messages", comp_messages, llm).messages
  /\ UNCHANGED << redis_vars, compressor, token_counter, compressor_max_tokens, compressed, table_vars, max_turns, cache_vars, async_vars, buffer_vars, handler_vars, store_vars >>

\* compressor.compress(result) on what the previous call returned
Compressor_compress_result(llm) ==
  /\ comp_calls # << >>
  /\ Len(comp_calls) < MaxCompressCalls
  /\ ~comp_calls[Len(comp_calls)].raised
  /\ comp_calls' = Append(comp_calls, compress_record("result", comp_calls[Len(comp_calls)].returned, llm))
  /\ UNCHANGED << redis_vars, compressor, token_counter, compressor_max_tokens, comp_messages, compressed, table_vars, max_turns, cache_vars, async_vars, buffer_vars, handler_vars, store_vars >>

NextStrategies == \/ \E llm \in LlmResults : Compressor_compress(llm)
                  \/ \E llm \in LlmResults : Compressor_compress_result(llm)

SpecStrategies == InitStrategies /\ [][NextStrategies]_vars

\* C21: SlidingWindowCompressor.compress is idempotent for every
\* keep_turns: compress of what compress returned returns the same list.
C21_SlidingWindowIdempotent ==
  compressor.kind = "SlidingWindow" =>
    \A i \in 2..Len(comp_calls) : comp_calls[i].on = "result" => comp_calls[i].returned = comp_calls[i - 1].returned

\* C22: for keep_turns >= 0 SlidingWindowCompressor.compress returns the
\* input when it has at most 2*keep_turns entries, otherwise its last
\* 2*keep_turns entries, so never more than 2*keep_turns entries.
C22_SlidingWindowKeepsLast ==
  (compressor.kind = "SlidingWindow" /\ compressor.keep_turns >= 0) =>
    \A i \in 1..Len(comp_calls) :
      LET c == comp_calls[i]
          n == 2 * compressor.keep_turns
      IN /\ IF Len(c.input) <= n THEN c.returned = c.input
            ELSE c.returned = SubSeq(c.input, Len(c.input) - n + 1, Len(c.input))
         /\ Len(c.returned) <= n

\* C23: at or below 2*threshold_turns entries HybridCompressor.compress
\* returns what SlidingWindowCompressor(keep_turns = k) returns and does
\* not call the summarizer, above it what LLMSummaryCompressor(k) returns,
\* and get_current_strategy names the strategy that compress uses.
C23_HybridDelegates ==
  compressor.kind = "Hybrid" =>
    \A i \in 1..Len(comp_calls) :
      LET c == comp_calls[i]
      IN IF Len(c.input) <= 2 * compressor.threshold_turns
         THEN /\ c.returned = SlidingWindowCompressor_compress(compressor.keep_turns, c.input)
              /\ c.llm_calls = 0
              /\ c.used = "SlidingWindow" /\ c.strategy = c.used
         ELSE /\ c.returned = LLMSummaryCompressor_compress(compressor.keep_turns, c.input, c.llm).returned
              /\ c.used = "LLMSummary" /\ c.strategy = c.used

\* C23 witness: a list of exactly 2*threshold_turns = 4 messages was cut
\* to the last two by the sliding window of a HybridCompressor
C23_Witness == /\ compressor.kind = "Hybrid" /\ compressor.threshold_turns = 2 /\ compressor.keep_turns = 1
               /\ comp_calls # << >>
               /\ Len(comp_calls[1].input) = 4 /\ Len(comp_calls[1].returned) = 2
               /\ comp_calls[1].llm_calls = 0 /\ comp_calls[1].strategy = "SlidingWindow"

\* C24: LLMSummaryCompressor.compress returns an input of at most
\* 2*keep_recent_turns entries unchanged without calling the summarizer;
\* for a longer input and keep_recent_turns >= 0 it returns one system
\* summary entry followed by the last 2*keep_recent_turns input entries.
C24_SummaryThenRecent ==
  (compressor.kind = "LLMSummary" /\ compressor.keep_turns >= 0) =>
    \A i \in 1..Len(comp_calls) :
      LET c == comp_calls[i]
          n == 2 * compressor.keep_turns
      IN IF Len(c.input) <= n THEN c.returned = c.input /\ c.llm_calls = 0
         ELSE /\ Len(c.returned) = n + 1
              /\ c.returned[1] \in {summary_entry(summarize(SubSeq(c.input, 1, Len(c.input) - n), r)) : r \in LlmResults}
              /\ Tail(c.returned) = SubSeq(c.input, Len(c.input) - n + 1, Len(c.input))

\* C25: when the summarizer call fails, compress of an
\* LLMSummaryCompressor or of a HybridCompressor does not raise: it returns
\* one system entry stating how many messages are not among the recent
\* ones, followed by the recent entries as they were.
C25_SummarizerFailureFallsBack ==
  \A i \in 1..Len(comp_calls) :
    LET c == comp_calls[i]
    IN (c.llm = "fails" /\ c.llm_calls > 0) =>
         /\ ~c.raised
         /\ c.returned # << >>
         /\ c.returned[1].role = "system" /\ c.returned[1].source = "fallback"
         /\ IsSuffix(Tail(c.returned), c.input)
         /\ compressor.keep_turns > 0 => Len(c.returned) = 2 * compressor.keep_turns + 1
         /\ c.returned[1].count = Len(c.input) - Len(Tail(c.returned))

\* C25 witness: llm.chat failed while an LLMSummaryCompressor compressed
\* four messages; the entry reports two messages and two follow it
C25_Witness == /\ compressor.kind = "LLMSummary" /\ compressor.keep_turns = 1
               /\ comp_calls # << >>
               /\ comp_calls[1].llm = "fails" /\ comp_calls[1].llm_calls = 1
               /\ Len(comp_calls[1].input) = 4 /\ Len(comp_calls[1].returned) = 3
               /\ comp_calls[1].returned[1].count = 2

MaxMessageRows == 3
\* longest messages_list of one add_messages call
MaxBatch == 2

\* tokens = None, NULL in the column
Null == 0 - 1

\* CheckConstraint("role IN ('user', 'assistant', 'system')")
MessageRoles == {"user", "assistant", "system"}

\* msg.get("tokens"): absent or a count
TokenValues == {Null, 1, 2}

\* session.add_all(messages); commit: the rows get ids in list order and
\* created_at from server_default now(), which is the start time of the
\* inserting transaction and so the same for every row of the batch
insert_messages(rows, conversation_id, messages_list, now) ==
  rows \o [i \in 1..Len(messages_list) |->
            [id |-> Len(rows) + i, conversation_id |-> conversation_id, role |-> messages_list[i].role,
             content |-> messages_list[i].content, tokens |-> messages_list[i].tokens, created_at |-> now]]

\* where(Message.conversation_id == conversation_id)
where_conversation(rows, conversation_id) == SelectSeq(rows, LAMBDA r : r.conversation_id = conversation_id)

\* order_by(Message.created_at.desc()): every order of the selected rows in
\* which created_at never increases; rows with equal created_at come in an
\* order the database chooses
order_by_created_at_desc(sel) ==
  LET n == Len(sel)
      perms == {p \in [1..n -> 1..n] : /\ \A i, j \in 1..n : i # j => p[i] # p[j]
                                       /\ \A i, j \in 1..n : i < j => sel[p[i]].created_at >= sel[p[j]].created_at}
  IN {[i \in 1..n |-> sel[p[i]]] : p \in perms}

\* "if limit is not None: stmt = stmt.limit(limit)"
limit_rows(ordered, limit) == IF limit = NoLimit \/ limit >= Len(ordered) THEN ordered ELSE SubSeq(ordered, 1, limit)

\* the lists PostgreSQLStorage.query_messages may return
query_messages_results(rows, conversation_id, limit) ==
  {limit_rows(ordered, limit) : ordered \in order_by_created_at_desc(where_conversation(rows, conversation_id))}

\* mutant: one NULL makes the sum of its role NULL
RECURSIVE sum_null_poisons(_, _)
sum_null_poisons(sel, role) ==
  IF sel = << >> THEN Null
  ELSE LET rest == sum_null_poisons(Tail(sel), role)
           r == Head(sel)
       IN IF r.role # role THEN rest
          ELSE IF r.tokens = Null THEN Null
          ELSE IF rest = Null /\ \A i \in 1..Len(Tail(sel)) : Tail(sel)[i].role # role THEN r.tokens
          ELSE IF rest = Null THEN Null
          ELSE r.tokens + rest

\* func.sum(Message.tokens) of one role's group: SUM skips NULL and is NULL
\* when the group has no row with a count
RECURSIVE sum_tokens(_, _)
sum_tokens(sel, role) ==
  IF sel = << >> THEN Null
  ELSE LET rest == sum_tokens(Tail(sel), role)
           r == Head(sel)
       IN IF r.role # role \/ r.tokens = Null THEN rest
          ELSE IF rest = Null THEN r.tokens
          ELSE r.tokens + rest

\* PostgreSQLStorage.get_tokens: token_stats starts at zeros; a group whose
\* sum is not None sets its role and adds to total
get_tokens(rows, conversation_id) ==
  LET sel == where_conversation(rows, conversation_id)
      stat(role) == IF sum_tokens(sel, role) = Null THEN 0 ELSE sum_tokens(sel, role)
  IN [total |-> stat("user") + stat("assistant") + stat("system"),
      user |-> stat("user"), assistant |-> stat("assistant"), system |-> stat("system")]

\* messages_list of add_messages: one conversation turn or part of it
OrderedBatches == {[i \in 1..n |-> [role |-> TurnRole(i), content |-> "a", tokens |-> Null]] : n \in 1..MaxBatch}

\* messages_list of one message of any role, with or without tokens
TokenBatches == {<< [role |-> r, content |-> "a", tokens |-> t] >> : r \in MessageRoles, t \in TokenValues}

\* storage.add_messages(conversation_id, messages_list); the call after
\* it runs in a later transaction
PostgreSQLStorage_add_messages(conversation_id, messages_list) ==
  /\ Len(message_rows) + Len(messages_list) <= MaxMessageRows
  /\ message_rows' = insert_messages(message_rows, conversation_id, messages_list, db_now)
  /\ db_now' = db_now + 1
  /\ db_calls' = << [op |-> "add_messages", conversation_id |-> conversation_id] >>
  /\ UNCHANGED << redis_vars, compressor_vars, conversations, user_profiles, summary_rows, max_turns, cache_vars, async_vars, buffer_vars, handler_vars, store_vars >>

\* storage.query_messages(conversation_id, limit)
PostgreSQLStorage_query_messages(conversation_id, limit) ==
  /\ \E result \in query_messages_results(message_rows, conversation_id, limit) :
       db_calls' = << [op |-> "query_messages", conversation_id |-> conversation_id, limit |-> limit, result |-> result] >>
  /\ UNCHANGED << redis_vars, compressor_vars, conversations, user_profiles, message_rows, db_now, summary_rows, max_turns, cache_vars, async_vars, buffer_vars, handler_vars, store_vars >>

\* storage.get_tokens(conversation_id)
PostgreSQLStorage_get_tokens(conversation_id) ==
  /\ db_calls' = << [op |-> "get_tokens", conversation_id |-> conversation_id, result |-> get_tokens(message_rows, conversation_id)] >>
  /\ UNCHANGED << redis_vars, compressor_vars, conversations, user_profiles, message_rows, db_now, summary_rows, max_turns, cache_vars, async_vars, buffer_vars, handler_vars, store_vars >>

InitMessages == /\ InitRedisKey /\ InitCompressor /\ InitTables /\ InitCache /\ InitAsync /\ session_maker = FALSE
                /\ max_turns = [h \in Handlers |-> 1]
                /\ InitHandlers
                /\ InitStore

NextMessages == \/ \E c \in ConversationIds, batch \in OrderedBatches : PostgreSQLStorage_add_messages(c, batch)
                \/ \E c \in ConversationIds, limit \in {NoLimit, 1} : PostgreSQLStorage_query_messages(c, limit)

SpecMessages == InitMessages /\ [][NextMessages]_vars

NextTokens == \/ \E c \in ConversationIds, batch \in TokenBatches : PostgreSQLStorage_add_messages(c, batch)
              \/ \E c \in ConversationIds : PostgreSQLStorage_get_tokens(c)

SpecTokens == InitMessages /\ [][NextTokens]_vars

\* C27: the messages of a conversation are totally ordered by creation
\* time in append order, no two of them share a creation time (rows of one
\* add_messages batch included), and query_messages returns exactly the
\* reverse of append order.
C27_CreationTimeOrdersMessages ==
  /\ \A i, j \in 1..Len(message_rows) :
       (i < j /\ message_rows[i].conversation_id = message_rows[j].conversation_id)
         => message_rows[i].created_at < message_rows[j].created_at
  /\ (db_calls # << >> /\ db_calls[1].op = "query_messages" /\ db_calls[1].limit = NoLimit)
       => db_calls[1].result = Reversed(where_conversation(message_rows, db_calls[1].conversation_id))

\* the sum of the token counts of one role, a missing count taken as 0
RECURSIVE tokens_or_zero(_, _, _)
tokens_or_zero(rows, conversation_id, role) ==
  IF rows = << >> THEN 0
  ELSE (IF Head(rows).conversation_id = conversation_id /\ Head(rows).role = role /\ Head(rows).tokens # Null THEN Head(rows).tokens ELSE 0)
       + tokens_or_zero(Tail(rows), conversation_id, role)

\* C29: get_tokens returns total = user + assistant + system, each role's
\* value the sum of that role's token counts with a missing count as 0,
\* and all zeros for a conversation without messages or without counts.
C29_TokenTotals ==
  (db_calls # << >> /\ db_calls[1].op = "get_tokens") =>
    LET r == db_calls[1].result
        c == db_calls[1].conversation_id
    IN /\ r.total = r.user + r.assistant + r.system
       /\ \A role \in MessageRoles : r[role] = tokens_or_zero(message_rows, c, role)
       /\ (\A i \in 1..Len(message_rows) : message_rows[i].conversation_id = c => message_rows[i].tokens = Null)
            => r = [total |-> 0, user |-> 0, assistant |-> 0, system |-> 0]

\* C29 witness: get_tokens of a conversation whose user messages are one
\* without a count and one with 2 tokens, next to a system message
C29_Witness == /\ db_calls # << >> /\ db_calls[1].op = "get_tokens" /\ db_calls[1].conversation_id = 1
               /\ Len(message_rows) = 3
               /\ \A i \in 1..3 : message_rows[i].conversation_id = 1
               /\ message_rows[1].role = "user" /\ message_rows[1].tokens = Null
               /\ message_rows[2].role = "user" /\ message_rows[2].tokens = 2
               /\ message_rows[3].role = "system" /\ message_rows[3].tokens = 1
               /\ db_calls[1].result = [total |-> 3, user |-> 2, assistant |-> 0, system |-> 1]

\* ======================= PostgreSQLStorage on the summaries table as rows
\* most rows of the summaries table
MaxSummaryRows == 3
\* most save_summary calls
MaxSaves == 4

\* the time_range labels and the summary texts that are saved
SummaryLabels == {time_range(BlockSize), time_range(2 * BlockSize)}
SummaryTexts == {"s1", "s2"}

\* mutant: the table has no unique constraint
no_unique_constraint(rows, conversation_id, label) == FALSE

\* UniqueConstraint('conversation_id', 'time_range'): the insert violates
\* it when a row of the conversation has the label
uq_conversation_timerange(rows, conversation_id, label) ==
  \E i \in 1..Len(rows) : rows[i].conversation_id = conversation_id /\ rows[i].time_range = label

\* storage.save_summary(conversation_id, time_range, summary_text): the
\* commit inserts the row or raises IntegrityError and rolls back
PostgreSQLStorage_save_summary(conversation_id, label, summary_text) ==
  /\ db_now <= MaxSaves
  /\ IF uq_conversation_timerange(summary_rows, conversation_id, label)
     THEN /\ summary_rows' = summary_rows
          /\ db_calls' = << [op |-> "save_summary", conversation_id |-> conversation_id, time_range |-> label, summary_text |-> summary_text, status |-> "raised"] >>
     ELSE /\ Len(summary_rows) < MaxSummaryRows
          /\ summary_rows' = Append(summary_rows, [id |-> Len(summary_rows) + 1, conversation_id |-> conversation_id, time_range |-> label, summary_text |-> summary_text, created_at |-> db_now])
          /\ db_calls' = << [op |-> "save_summary", conversation_id |-> conversation_id, time_range |-> label, summary_text |-> summary_text, status |-> "ok"] >>
  /\ db_now' = db_now + 1
  /\ UNCHANGED << redis_vars, compressor_vars, conversations, user_profiles, message_rows, max_turns, cache_vars, async_vars, buffer_vars, handler_vars, store_vars >>

\* storage.get_summaries(conversation_id): order_by(Summary.created_at)
PostgreSQLStorage_get_summaries(conversation_id) ==
  /\ db_calls' = << [op |-> "get_summaries", conversation_id |-> conversation_id, result |-> where_conversation(summary_rows, conversation_id)] >>
  /\ UNCHANGED << redis_vars, compressor_vars, conversations, user_profiles, message_rows, db_now, summary_rows, max_turns, cache_vars, async_vars, buffer_vars, handler_vars, store_vars >>

NextSummaries == \/ \E c \in ConversationIds, label \in SummaryLabels, text \in SummaryTexts : PostgreSQLStorage_save_summary(c, label, text)
                 \/ \E c \in ConversationIds : PostgreSQLStorage_get_summaries(c)

SpecSummaries == InitMessages /\ [][NextSummaries]_vars

\* the row of the summaries table whose insert the step is about
SavedRow == [id |-> Len(summary_rows) + 1, conversation_id |-> db_calls'[1].conversation_id, time_range |-> db_calls'[1].time_range,
             summary_text |-> db_calls'[1].summary_text, created_at |-> db_now]

\* a step of save_summary
SaveStep == db_now' # db_now /\ db_calls' # << >> /\ db_calls'[1].op = "save_summary"

\* C28: no two Summaries of a conversation have the same label; a
\* save_summary for a (conversation, label) that has a Summary raises and
\* leaves the table as it was, and one for a label that only another
\* conversation uses inserts its row.
C28_LabelsUniquePerConversation ==
  /\ [](\A i, j \in 1..Len(summary_rows) :
          (summary_rows[i].conversation_id = summary_rows[j].conversation_id /\ summary_rows[i].time_range = summary_rows[j].time_range) => i = j)
  /\ [][SaveStep =>
          IF \E i \in 1..Len(summary_rows) : summary_rows[i].conversation_id = db_calls'[1].conversation_id /\ summary_rows[i].time_range = db_calls'[1].time_range
          THEN db_calls'[1].status = "raised" /\ summary_rows' = summary_rows
          ELSE db_calls'[1].status = "ok" /\ summary_rows' = Append(summary_rows, SavedRow)]_vars

\* C28 witness: conversations 1 and 2 both hold a Summary labelled
\* msg_1_to_50, and a second save of the label for conversation 1 with
\* another text has just raised
C28_Witness == /\ Len(summary_rows) = 2
               /\ summary_rows[1].conversation_id = 1 /\ summary_rows[1].time_range = time_range(BlockSize) /\ summary_rows[1].summary_text = "s1"
               /\ summary_rows[2].conversation_id = 2 /\ summary_rows[2].time_range = time_range(BlockSize)
               /\ db_calls # << >> /\ db_calls[1].op = "save_summary" /\ db_calls[1].status = "raised"
               /\ db_calls[1].conversation_id = 1 /\ db_calls[1].summary_text = "s2"

\* ============================== get_context_for_llm over four summaries
\* add_message calls explored: enough for the persisted count to pass 200
\* with max_turns = 1, so that a fourth Summary exists
MaxAddsContext == 203

NextContext == \/ Len(added[1]) < MaxAddsContext /\ add_message_call(1, TurnRole(Len(added[1]) + 1), Len(added[1]) + 1)
               \/ add_message_get_conversation(1, TRUE)
               \/ add_message_add_messages(1, TRUE)
               \/ MidTermMemory_count(1)
               \/ \E fail \in FailPoints, updates \in ProfileUpdates : MidTermMemory_compress_recent_messages(1, fail, updates)
               \/ inspect_summaries(1)
               \/ \E max_tokens \in TokenBudgets, use_compression \in BOOLEAN : get_context_for_llm(1, max_tokens, use_compression)

SpecContext == InitCompact /\ [][NextContext]_vars

\* the number of system notes at the front of a context
RECURSIVE notes_count(_)
notes_count(context) == IF context # << >> /\ Head(context).role = "system" THEN 1 + notes_count(Tail(context)) ELSE 0

\* C30: the context of get_context_for_llm ends with the whole buffer
\* snapshot in buffer order; the backfilled persisted messages stand right
\* before it, oldest first; and the summary note lists the at most three
\* most recently created Summaries, oldest to newest.
C30_ContextEndsWithSnapshot ==
  (pc[1] = "idle" /\ outcome[1].op = "get_context_for_llm") =>
    LET context == outcome[1].value
        short_messages == get_messages(messages[1])
        notes == notes_count(context)
        backfill == Len(context) - notes - Len(short_messages)
        persisted == messages_dict(pg_messages)
    IN /\ backfill >= 0 /\ backfill <= Len(persisted)
       /\ SubSeq(context, Len(context) - Len(short_messages) + 1, Len(context)) = short_messages
       /\ SubSeq(context, notes + 1, notes + backfill) = SubSeq(persisted, Len(persisted) - backfill + 1, Len(persisted))
       /\ \A i \in 1..notes : context[i].content[1] = "summaries" =>
            /\ Len(context[i].content[2]) <= 3
            /\ context[i].content[2] = [j \in 1..Len(context[i].content[2]) |-> pg_summaries[Len(pg_summaries) - Len(context[i].content[2]) + j].time_range]

\* C30 witness: four Summaries exist and the context holds the note of
\* the last three, ten or more backfilled messages and the two buffered
C30_Witness == /\ pc[1] = "idle" /\ outcome[1].op = "get_context_for_llm"
               /\ Len(pg_summaries) = 4
               /\ Len(messages[1]) = 2
               /\ Len(outcome[1].value) >= 13
               /\ \E i \in 1..2 : /\ outcome[1].value[i].role = "system"
                                  /\ outcome[1].value[i].content[1] = "summaries"
                                  /\ outcome[1].value[i].content[2] = << time_range(100), time_range(150), time_range(200) >>

\* ================== asynchronous compaction: configuration and life cycle
\* C31: a handler with asynchronous compaction that was constructed
\* without a session factory does not exist (its construction is
\* rejected), so it takes no add_message call and no background unit ever
\* finds the factory missing.
C31_MissingFactoryRejected ==
  /\ ~session_maker => \A h \in Handlers : added[h] = << >>
  /\ \A t \in 1..Len(tasks) : tasks[t].result # "skipped"

\* C35: the compaction of a conversation is triggered only while no unit
\* of it is triggered or running, so at most one unit has been created and
\* has not ended at any time.
C35_OneCompactionAtATime ==
  \A t1, t2 \in 1..Len(tasks) : (tasks[t1].state # "done" /\ tasks[t2].state # "done") => t1 = t2

\* C36: in asynchronous mode the Summary saved under msg_{c-49}_to_{c} was
\* made from exactly the messages at persisted positions c-49..c, whatever
\* was persisted between the trigger and the unit's query.
C36_AsyncSummaryCoversItsLabel ==
  \A i \in 1..Len(pg_summaries) :
    LET label == pg_summaries[i].time_range
    IN Range(pg_summaries[i].of) = {pg_messages[k] : k \in label[1]..label[2]}

\* ============================== RedisStorage.add_message: end of the call
\* C37: RedisStorage.add_message ends for every input and every state of
\* the key (no call is left inside the script's loop, also when the same
\* message is already stored), and the count it returns is the number of
\* messages under the key after the trim.
C37_AddMessageTerminates ==
  /\ [](~redis_busy /\ \A c \in {1, 2} : replies[c].state # "running")
  /\ [][\A c \in {1, 2} : ScriptDone(c) => replies'[c].count = Cardinality(zset')]_vars

\* ================================================= RedisStorage._get_key
\* longest user_id and session_id
MaxIdLen == 2
\* keys in use at a time
MaxKeys == 2

\* identifiers are strings, written as sequences of characters; the code
\* puts no restriction on them
IdChars == {"a", ":"}
Identifiers == UNION {[1..n -> IdChars] : n \in 1..MaxIdLen}

\* the suffixes the operations pass: "messages" and "profile"
KeyKinds == {<< "m", "e", "s", "s", "a", "g", "e", "s" >>, << "p", "r", "o", "f", "i", "l", "e" >>}

\* f"chat:{user_id}:{session_id}:{suffix}"
get_key(user_id, session_id, suffix) == << "c", "h", "a", "t", ":" >> \o user_id \o << ":" >> \o session_id \o << ":" >> \o suffix

\* an operation of RedisStorage for (user_id, session_id) on the entry of
\* one kind: the entry found under the key is the one it reads or writes
RedisStorage_key_operation(user_id, session_id, suffix) ==
  /\ Cardinality(redis_keys) < MaxKeys
  /\ redis_keys' = redis_keys \cup {[key |-> get_key(user_id, session_id, suffix), user_id |-> user_id, session_id |-> session_id, suffix |-> suffix]}
  /\ UNCHANGED << redis_max_messages, zset, key_ttl, redis_busy, zadded, replies, compressor_vars, table_vars, max_turns, cache_vars, async_vars, buffer_vars, handler_vars, store_vars >>

NextKeys == \E user_id \in Identifiers, session_id \in Identifiers, suffix \in KeyKinds : RedisStorage_key_operation(user_id, session_id, suffix)

SpecKeys == InitMessages /\ [][NextKeys]_vars

\* C32: distinct (user_id, session_id, kind) triples have distinct keys, so
\* the entry an operation finds under its key belongs to its own
\* conversation and kind.
C32_KeysDoNotCollide ==
  \A e1, e2 \in redis_keys : e1.key = e2.key => (e1.user_id = e2.user_id /\ e1.session_id = e2.session_id /\ e1.suffix = e2.suffix)

\* ================ one MidTermMemory: clear_session, reload, further adds
\* add_message calls explored around a reload (content = call number)
MaxAddsReload == 6

\* MidTermMemory.clear_session: self.short_term.clear(); the store is kept
clear_session(h) ==
  /\ pc[h] = "idle"
  /\ messages' = [messages EXCEPT ![h] = << >>]
  /\ outcome' = [outcome EXCEPT ![h] = [NoOutcome EXCEPT !.op = "clear_session"]]
  /\ UNCHANGED << redis_vars, compressor_vars, table_vars, max_turns, cache_vars, async_vars, added, entered, returned, pc, frame, raised, store_vars >>

NextReload == \/ Len(added[1]) < MaxAddsReload /\ add_message_call(1, TurnRole(Len(added[1]) + 1), Len(added[1]) + 1)
              \/ add_message_get_conversation(1, TRUE)
              \/ add_message_add_messages(1, TRUE)
              \/ MidTermMemory_count(1)
              \/ clear_session(1)
              \/ \E n \in 1..MaxLoadCount : Len(entered[1]) < Len(added[1]) + MaxLoads * MaxLoadCount /\ load_recent_history(1, n)
              \/ \E max_tokens \in TokenBudgets, use_compression \in BOOLEAN : get_context_for_llm(1, max_tokens, use_compression)

SpecReload == InitCompact /\ [][NextReload]_vars

\* C33: no message is persisted twice, also after load_recent_history has
\* refilled the buffer and more messages were added: every added message
\* is at most once among the persisted messages, and their count is the
\* number of distinct messages evicted.
C33_NoMessagePersistedTwice ==
  /\ \A i \in 1..Len(added[1]) : Cardinality({k \in 1..Len(pg_messages) : pg_messages[k] = added[1][i]}) <= 1
  /\ Len(pg_messages) = Cardinality(Range(pg_messages))

\* C39: the context of get_context_for_llm holds no conversation message
\* twice: what is in the buffer snapshot is not also backfilled from the
\* store.
C39_ContextHasNoDuplicates ==
  (pc[1] = "idle" /\ outcome[1].op = "get_context_for_llm") =>
    \A i, j \in 1..Len(outcome[1].value) :
      (i < j /\ outcome[1].value[i].role # "system" /\ outcome[1].value[j].role # "system")
        => outcome[1].value[i] # outcome[1].value[j]

\* ============== two MidTermMemoryWithRedis writers on one conversation
\* add_message calls of the two writers together (content = call number)
MaxAddsRedisConc == 3

\* Each writer has its own buffer and storage session; both write the same
\* (user_id, session_id) and the same cache entry.  Every await of
\* add_message is a point where the other writer's call can run.
NextRedisConc == \/ \E h \in Handlers : Len(added[1]) + Len(added[2]) < MaxAddsRedisConc /\ add_message_call(h, "user", Len(added[1]) + Len(added[2]) + 1)
                 \/ \E h \in Handlers : add_message_get_conversation(h, TRUE)
                 \/ \E h \in Handlers : add_message_add_messages(h, TRUE)
                 \/ \E h \in Handlers : WithRedis_read_all(h)
                 \/ \E h \in Handlers : WithRedis_cache_write(h)

SpecRedisConc == InitConc /\ [][NextRedisConc]_vars

\* C34: once the add_message calls of both writers have returned, the
\* cached list holds every persisted message of the conversation: the
\* writer that read the store earlier has not overwritten the entry of the
\* writer that read it later.
C34_CacheHoldsAllPersisted ==
  (\A h \in Handlers : pc[h] = "idle") =>
    \A i \in 1..Len(pg_messages) : cache # << >> /\ to_dict(pg_messages[i]) \in Range(cache[1])

\* ===================== add_message when persisting the batch fails
\* C38: when get_or_create_conversation or add_messages raises, the
\* add_message call raises (a call that returned normally has its batch in
\* the store), and no message is lost: every message added so far is in
\* the buffer or in the store once the call has ended.
C38_FailedPersistLosesNothing ==
  pc[1] = "idle" =>
    /\ (outcome[1].op = "add_message" /\ outcome[1].status = "ok") => \A i \in 1..Len(outcome[1].persisted) : outcome[1].persisted[i] \in Range(pg_messages)
    /\ \A i \in 1..Len(added[1]) : added[1][i] \in (Range(get_messages(messages[1])) \cup Range(pg_messages))

====
